---- MODULE Spec2Model ----
(***************************************************************************)
(* Model of the hello-aviation background prefetcher (prefetch.py), the    *)
(* per-product result caches (froude.py, virga.py, winds.py) and the       *)
(* request path that reads them (app.py).                                  *)
(*                                                                         *)
(* Threads:                                                                *)
(*   - the prefetch daemon thread running _prefetch_loop                   *)
(*   - a status-query thread running get_all_status                        *)
(*   - a request thread running one of the /api/<product>/colorado routes  *)
(*   - the wall clock read by time.time()                                  *)
(***************************************************************************)
EXTENDS Integers, Sequences, FiniteSets, TLC

(***************************************************************************)
(* Bounds of the model.                                                    *)
(***************************************************************************)
\* forecast hours are 1..MAX_FXX; the program uses 12 (prefetch.py:26)
MAX_FXX == 1
\* last wall-clock second observed
MaxTime == 601

(***************************************************************************)
(* Program constants.                                                      *)
(***************************************************************************)
\* ttl_seconds default of the request routes and of the cached getters
DEFAULT_TTL == 600
\* ttl_seconds passed by _fetch_one
PREFETCH_TTL == 3600

\* Python's None, where a cycle_utc string is expected
None == "None"
NoExc == ""

\* "for product in ["winds", "froude", "virga"]"
Products == <<"winds", "froude", "virga">>
ProductSet == {Products[k] : k \in 1..Len(Products)}
Hours == 1..MAX_FXX
\* the cycle_utc strings of two consecutive model runs
Cycles == {"2026-02-22T01:00Z", "2026-02-22T02:00Z"}
\* values of the routes' "fxx" query argument: int(request.args.get("fxx", 1))
RequestFxx == {1}
Keys == Cycles \X (Hours \cup RequestFxx)

(***************************************************************************)
(* Error texts.  str(e) of the exceptions the cached getters can raise.    *)
(***************************************************************************)
\* calling get_hrrr_gusts_cached(fxx, ttl_seconds) with cycle_utc=...
TypeErrorText == "get_hrrr_gusts_cached() got an unexpected keyword argument 'cycle_utc'"

FetchErrors ==
  { "Field not found: name='Temperature' typeOfLevel='isobaricInhPa' level=850 in f.grib2",
    "Download failed: /tmp/herbie/f.grib2",
    "HTTP Error 404: Not Found",
    "Did Not Find hrrr.t02z.wrfprsf01.grib2",
    "[Errno 2] No such file or directory",
    "Read timed out." }

UpperCase == "ABCDEFGHIJKLMNOPQRSTUVWXYZ"
LowerCase == "abcdefghijklmnopqrstuvwxyz"

\* str.lower() on one character
ToLower ==
  [c \in {SubSeq(UpperCase, k, k) : k \in 1..Len(UpperCase)} |->
     LET k == CHOOSE k \in 1..Len(UpperCase) : SubSeq(UpperCase, k, k) = c
     IN  SubSeq(LowerCase, k, k)]

LowerChar(c) == IF c \in DOMAIN ToLower THEN ToLower[c] ELSE c

RECURSIVE Lower(_)
Lower(s) ==
  IF Len(s) = 0 THEN ""
  ELSE LowerChar(SubSeq(s, 1, 1)) \o Lower(SubSeq(s, 2, Len(s)))

Contains(sub, s) ==
  \E k \in 1..(Len(s) - Len(sub) + 1) : SubSeq(s, k, k + Len(sub) - 1) = sub

NotYetMarkers == {"not found", "did not find", "no such file", "404"}

\* variant: the markers are searched in str(e) as raised, not lower-cased
LooksNotYetPublished_CaseSensitive(e) ==
  \E k \in NotYetMarkers : Contains(k, e)

\* the test of _fetch_one's except clause
LooksNotYetPublished(e) ==
  LET msg == Lower(e) IN \E k \in NotYetMarkers : Contains(k, msg)

(***************************************************************************)
(* Cycle resolution: the inputs of _find_latest_hrrr_cycle.                *)
(***************************************************************************)
\* largest max_lookback_hours tried; the parameter's default is 6
MaxLookback == 3
\* _now_utc_hour_naive(), in hours
BaseHour == 100
\* values of max_lookback_hours; range(max_lookback_hours + 1) is empty for -1
LookbackValues == -1..MaxLookback
\* the hours a call can probe
CandidateHours == (BaseHour - MaxLookback)..BaseHour
\* exception classes Herbie(...) / H.inventory() raise for a cycle that is not there
ProbeErrors == {"FileNotFoundError", "ValueError"}
\* what the inventory probe of each hour does: returns, or raises one of ProbeErrors
ProbeOutcomes == [CandidateHours -> {"ok"} \cup ProbeErrors]

(***************************************************************************)
(* Availability check: the inputs of the status of one cycle.              *)
(***************************************************************************)
\* the forecast hours probed for each cycle are 1..12
TOTAL_HOURS == 12
\* size of the worker pool that runs the probes
MaxWorkers == 2
\* the sets of forecast hours whose inventory probe succeeds
ProbeSuccessSets ==
  { {}, {1, 2, 3}, {2, 7, 12}, {10, 11, 12}, {1, 2, 3, 4, 5, 6}, 1..TOTAL_HOURS }

(***************************************************************************)
(* Floating-point values: a rational n/d in lowest terms, an infinity of   *)
(* sign n, or NaN; the operations follow IEEE 754 for the special values.  *)
(***************************************************************************)
NaN == [k |-> "nan", n |-> 0, d |-> 1]
Inf(sign) == [k |-> "inf", n |-> sign, d |-> 1]

Abs(x) == IF x < 0 THEN -x ELSE x
Sign(x) == IF x < 0 THEN -1 ELSE IF x > 0 THEN 1 ELSE 0

RECURSIVE GCD(_, _)
GCD(a, b) == IF b = 0 THEN a ELSE GCD(b, a % b)

\* the rational n/d, d > 0
Num(n, d) ==
  LET g == GCD(Abs(n), d) IN [k |-> "num", n |-> n \div g, d |-> d \div g]

IsNaN(a) == a.k = "nan"

FNeg(a) == IF a.k = "nan" THEN NaN ELSE IF a.k = "inf" THEN Inf(-a.n) ELSE Num(-a.n, a.d)

\* a + b
FAdd(a, b) ==
  IF a.k = "nan" \/ b.k = "nan" THEN NaN
  ELSE IF a.k = "inf" THEN (IF b.k = "inf" /\ b.n # a.n THEN NaN ELSE a)
  ELSE IF b.k = "inf" THEN b
  ELSE Num(a.n * b.d + b.n * a.d, a.d * b.d)

\* a - b
FSub(a, b) == FAdd(a, FNeg(b))

\* a * b
FMul(a, b) ==
  IF a.k = "nan" \/ b.k = "nan" THEN NaN
  ELSE IF a.k = "inf" \/ b.k = "inf"
  THEN (IF a.n = 0 \/ b.n = 0 THEN NaN ELSE Inf(Sign(a.n) * Sign(b.n)))
  ELSE Num(a.n * b.n, a.d * b.d)

\* a / b on numpy arrays: a division by zero gives an infinity or NaN, it does not raise
FDiv(a, b) ==
  IF a.k = "nan" \/ b.k = "nan" THEN NaN
  ELSE IF a.k = "inf" THEN (IF b.k = "inf" THEN NaN
                            ELSE Inf(a.n * (IF b.n < 0 THEN -1 ELSE 1)))
  ELSE IF b.k = "inf" THEN Num(0, 1)
  ELSE IF b.n = 0 THEN (IF a.n = 0 THEN NaN ELSE Inf(Sign(a.n)))
  ELSE Num(a.n * b.d * Sign(b.n), a.d * Abs(b.n))

\* a < b and a <= b; every comparison with NaN is false.  A comparison with 1/R is
\* written with a division, so that no product leaves the 32-bit integers.
FLt(a, b) ==
  IF a.k = "nan" \/ b.k = "nan" THEN FALSE
  ELSE IF a.k = "inf" THEN a.n < 0 /\ ~(b.k = "inf" /\ b.n < 0)
  ELSE IF b.k = "inf" THEN b.n > 0
  ELSE IF b.n = 1 THEN a.n <= (a.d - 1) \div b.d
  ELSE a.n * b.d < b.n * a.d

FLe(a, b) ==
  IF a.k = "nan" \/ b.k = "nan" THEN FALSE
  ELSE a = b \/ FLt(a, b)

\* np.maximum(a, b): NaN if either is NaN
FMaximum(a, b) ==
  IF a.k = "nan" \/ b.k = "nan" THEN NaN
  ELSE IF FLt(a, b) THEN b ELSE a

\* np.minimum(a, b): NaN if either is NaN
FMinimum(a, b) ==
  IF a.k = "nan" \/ b.k = "nan" THEN NaN
  ELSE IF FLt(b, a) THEN b ELSE a

\* np.clip(a, lo, hi)
FClip(a, lo, hi) == FMinimum(FMaximum(a, lo), hi)

\* np.sqrt(a): NaN for NaN and for a negative number; the root of a rational n/d is
\* kept as [k |-> "sqrt", n, d], the number whose square is n/d
FSqrt(a) ==
  IF a.k = "nan" THEN NaN
  ELSE IF a.k = "inf" THEN (IF a.n > 0 THEN a ELSE NaN)
  ELSE IF a.n < 0 THEN NaN
  ELSE [k |-> "sqrt", n |-> a.n, d |-> a.d]

\* round(a, digits) of a finite number, to the nearest multiple of 1/scale,
\* scale = 10^digits; a tie goes to the even neighbour
FRound(a, scale) ==
  LET m == a.n * scale
      q == m \div a.d
      r == m % a.d
      up == 2 * r > a.d \/ (2 * r = a.d /\ q % 2 = 1)
  IN  Num(IF up THEN q + 1 ELSE q, scale)

(***************************************************************************)
(* Froude number: the inputs of _brunt_vaisala and of the classification.  *)
(***************************************************************************)
\* number of grid cells of the clipped region
MaxCells == 2
\* "G = 9.81"
G == Num(981, 100)
\* temperatures (K) at 850 mb and at 500 mb
T850Values == {Num(244, 1), Num(280, 1), Num(300, 1)}
T500Values == {Num(210, 1), Num(250, 1)}
\* geopotential heights (m) at 850 mb and at 500 mb
GH850Values == {Num(1500, 1)}
GH500Values == {Num(1500, 1), Num(5500, 1)}
\* values of |u| / (N * h) for a cell, and NaN for a cell with a missing input
RatioValues ==
  {Num(n, 10000) : n \in {0, 4999, 5000, 5001, 7999, 8000, 8001, 15000, 15001,
                          100000, 120000}} \cup {NaN}

(***************************************************************************)
(* Virga: the per-cell inputs of the gate and of the classification.       *)
(***************************************************************************)
\* values of max_upper_rh (%), and NaN for a cell with a missing input
UpperRHValues == {Num(0, 1), Num(79999, 1000), Num(80, 1), Num(100, 1), NaN}
\* values of max_rh_decrease (%): it starts at 0 and only grows, RH being in [0, 100]
DecreaseValues ==
  {Num(n, 100) : n \in {0, 1990, 2000, 3996, 4000, 5999, 6000, 7999, 8000, 9500, 10000}}

(***************************************************************************)
(* State.                                                                  *)
(***************************************************************************)
VARIABLES
  _STATUS,          \* prefetch._STATUS: product -> fxx -> status
  _CYCLE_IN_USE,    \* prefetch._CYCLE_IN_USE["cycle_utc"]
  _STATUS_LOCK,     \* holder of prefetch._STATUS_LOCK
  froude_CACHE,     \* froude._CACHE: (cycle_utc, fxx) -> {ts, data}
  virga_CACHE,      \* virga._CACHE:  (cycle_utc, fxx) -> {ts, data}
  winds_CACHE,      \* winds._CACHE:  the single {ts, data}
  now,              \* the wall clock, time.time()
  pc,               \* position of the prefetch thread
  cycle_utc,        \* _prefetch_loop local
  available_hours,  \* _prefetch_loop local
  hi,               \* position of "for fxx in available_hours"
  pi,               \* position of "for product in [...]" / "for product in _STATUS"
  rf,               \* position of "for fxx in range(1, MAX_FXX + 1)" in the reset
  pf_now,           \* local "now" of the cached getter called by _fetch_one
  exc,              \* str(e) of the exception caught in _fetch_one, or NoExc
  q_pc,             \* position of the status-query thread
  snapshot,         \* the dict get_all_status is building / has returned
  r_pc,             \* position of the request thread
  req,              \* the request's product, cycle_utc, fxx, ttl
  r_now,            \* local "now" of the cached getter called by the route
  r_result,         \* what the route's cached get returned or raised
  s_pc,             \* position of a second request thread
  s_req,            \* the second request's product, cycle_utc, fxx, ttl
  s_now,            \* local "now" of the cached getter called by the second request
  s_result,         \* what the second route's cached get returned or raised
  cyc,              \* the frame of _find_latest_hrrr_cycle: its arguments, locals, result
  avail,            \* the frame of the availability check of one cycle
  bv,               \* the frame of _brunt_vaisala for one grid cell
  frd,              \* fetch_froude from "fr = np.clip(...)" on: fr, cat, points
  vrg,              \* fetch_virga from "virga_pct = np.where(...)" on
  gst,              \* the frame of fetch_hrrr_gusts from "gust_da.load()" on
  ffl,              \* fetch_froude from its first _read_field to the clipping
  vcol              \* fetch_virga from the scan of the file to the drying scan, one column

prefetchVars == <<pc, cycle_utc, available_hours, hi, pi, rf, pf_now, exc>>
sharedVars == <<_STATUS, _CYCLE_IN_USE, _STATUS_LOCK>>
cacheVars == <<froude_CACHE, virga_CACHE, winds_CACHE>>
queryVars == <<q_pc, snapshot>>
requestVars == <<r_pc, req, r_now, r_result>>
secondVars == <<s_pc, s_req, s_now, s_result>>
calcVars == <<cyc, avail, bv, frd, vrg>>
gridVars == <<gst, ffl, vcol>>
vars == <<_STATUS, _CYCLE_IN_USE, _STATUS_LOCK, froude_CACHE, virga_CACHE, winds_CACHE,
          now, pc, cycle_utc, available_hours, hi, pi, rf, pf_now, exc,
          q_pc, snapshot, r_pc, req, r_now, r_result,
          s_pc, s_req, s_now, s_result, cyc, avail, bv, frd, vrg, gst, ffl, vcol>>

\* a payload is the dict a calculator returns; "cycle_utc" and "fxx" identify the
\* published grid file it was computed from (fetch_froude, fetch_virga)
NoData == [cycle_utc |-> None, fxx |-> 0]
Payload(c, f) == [cycle_utc |-> c, fxx |-> f]
\* a key that is not in the dict; winds._CACHE as initialised: {"ts": 0.0, "data": None}
Absent == [present |-> FALSE, ts |-> 0, data |-> NoData]
Entry(t, d) == [present |-> TRUE, ts |-> t, data |-> d]

NoSnapshot == [cycle_utc |-> None, products |-> [p \in ProductSet |-> [f \in Hours |-> "none"]]]
NoRequest == [product |-> "", cycle_utc |-> None, fxx |-> 0, ttl |-> 0]
NoResult == [kind |-> "none", data |-> NoData, msg |-> NoExc]

\* _brunt_vaisala is not running
NoStability ==
  [pc |-> "idle", T_850 |-> NaN, T_500 |-> NaN, gh_850 |-> NaN, gh_500 |-> NaN, N |-> NaN]

\* fetch_froude is not at its classification
NoFroude == [pc |-> "idle", i |-> 0, fr |-> NaN, cat |-> 0, points |-> << >>]

\* fetch_virga is not at its classification
NoVirga ==
  [pc |-> "idle", i |-> 0, max_upper_rh |-> NaN, max_rh_decrease |-> NaN,
   virga_pct |-> NaN, cat |-> 0, points |-> << >>]

\* fetch_hrrr_gusts is not running
NoGust == [pc |-> "idle"]

\* fetch_froude is not reading fields
NoFields == [pc |-> "idle"]

\* fetch_virga is not running
NoColumn == [pc |-> "idle"]

\* _find_latest_hrrr_cycle is not running
NoResolve ==
  [pc |-> "idle", max_lookback_hours |-> 0, outcome |-> [c \in CandidateHours |-> "ok"],
   h |-> 0, probed |-> << >>, result |-> 0]

\* no availability check is running
NoAvail ==
  [pc |-> "idle", ok |-> {}, next |-> 1, inflight |-> {}, done |-> << >>,
   available_hours |-> << >>, pct_complete |-> 0]

Init ==
  /\ _STATUS = [p \in ProductSet |-> [f \in Hours |-> "pending"]]
  /\ _CYCLE_IN_USE = None
  /\ _STATUS_LOCK = "free"
  /\ froude_CACHE = [k \in Keys |-> Absent]
  /\ virga_CACHE = [k \in Keys |-> Absent]
  /\ winds_CACHE = Absent
  /\ now = 0
  /\ pc = "delay"
  /\ cycle_utc = None
  /\ available_hours = << >>
  /\ hi = 1
  /\ pi = 1
  /\ rf = 1
  /\ pf_now = 0
  /\ exc = NoExc
  /\ q_pc = "idle"
  /\ snapshot = NoSnapshot
  /\ r_pc = "idle"
  /\ req = NoRequest
  /\ r_now = 0
  /\ r_result = NoResult
  /\ s_pc = "idle"
  /\ s_req = NoRequest
  /\ s_now = 0
  /\ s_result = NoResult
  /\ cyc = NoResolve
  /\ avail = NoAvail
  /\ bv = NoStability
  /\ frd = NoFroude
  /\ vrg = NoVirga
  /\ gst = NoGust
  /\ ffl = NoFields
  /\ vcol = NoColumn

(***************************************************************************)
(* The cached getters get_froude_cached / get_virga_cached.                *)
(***************************************************************************)
CacheOf(p) == IF p = "froude" THEN froude_CACHE ELSE virga_CACHE

\* variant: an entry exactly ttl seconds old is already stale
IsMiss_AtTTL(cached, t, ttl) == (~cached.present) \/ (t - cached.ts) >= ttl

\* "cached is None or (now - cached["ts"]) > ttl_seconds"
IsMiss(cached, t, ttl) == (~cached.present) \/ (t - cached.ts) > ttl

\* variant: an entry with a later timestamp is kept
Store_KeepNewer(p, key, t, d) ==
  IF p = "froude"
  THEN /\ froude_CACHE' = [froude_CACHE EXCEPT
                             ![key] = IF @.present /\ @.ts > t THEN @ ELSE Entry(t, d)]
       /\ UNCHANGED <<virga_CACHE, winds_CACHE>>
  ELSE /\ virga_CACHE' = [virga_CACHE EXCEPT
                            ![key] = IF @.present /\ @.ts > t THEN @ ELSE Entry(t, d)]
       /\ UNCHANGED <<froude_CACHE, winds_CACHE>>

\* "_CACHE[key] = {"ts": now, "data": ...}" in the module of product p
Store(p, key, t, d) ==
  IF p = "froude"
  THEN /\ froude_CACHE' = [froude_CACHE EXCEPT ![key] = Entry(t, d)]
       /\ UNCHANGED <<virga_CACHE, winds_CACHE>>
  ELSE /\ virga_CACHE' = [virga_CACHE EXCEPT ![key] = Entry(t, d)]
       /\ UNCHANGED <<froude_CACHE, winds_CACHE>>

(***************************************************************************)
(* The prefetch thread: start_prefetch_thread -> _delayed_start ->         *)
(* _prefetch_loop -> _fetch_one.                                           *)
(***************************************************************************)
RECURSIVE SortedSeq(_)
SortedSeq(S) ==
  IF S = {} THEN << >>
  ELSE LET m == CHOOSE x \in S : \A y \in S : x <= y
       IN  <<m>> \o SortedSeq(S \ {m})

\* the (product, fxx) the double loop of _prefetch_loop is at
curFxx == available_hours[hi]
curProduct == Products[pi]

\* status["cycles"][0] of the availability status: the top cycle and the ascending
\* list of its forecast hours whose inventory probe succeeded
CycleStatuses ==
  {[cycle_utc |-> c, available_hours |-> SortedSeq(hrs)] : c \in Cycles, hrs \in SUBSET Hours}

\* time.sleep(delay_seconds); _prefetch_loop()
DelayedStart ==
  /\ pc = "delay"
  /\ pc' = "status"
  /\ UNCHANGED <<sharedVars, cacheVars, now, cycle_utc, available_hours, hi, pi, rf,
                 pf_now, exc, queryVars, secondVars, calcVars, gridVars, requestVars>>

\* where the pass goes once the cycle is settled: "for fxx in available_hours:"
EnterHours(hrs) == IF Len(hrs) = 0 THEN "sleep" ELSE "examine"

\* status = get_cycle_status_cached(ttl_seconds=300)
\* cycle_utc = status["cycles"][0]["cycle_utc"]
\* "if cycle_utc != _CYCLE_IN_USE["cycle_utc"]:" ... else
\* available_hours = status["cycles"][0]["available_hours"]
GetCycleStatus ==
  /\ pc = "status"
  /\ \E top \in CycleStatuses :
       /\ cycle_utc' = top.cycle_utc
       /\ available_hours' = top.available_hours
       /\ pc' = IF top.cycle_utc # _CYCLE_IN_USE
                THEN "reset_lock" ELSE EnterHours(top.available_hours)
  /\ hi' = 1
  /\ pi' = 1
  /\ UNCHANGED <<sharedVars, cacheVars, now, rf, pf_now, exc, queryVars, secondVars, calcVars, gridVars, requestVars>>

\* variant: the exception is not caught and ends the thread
LoopError_Terminates ==
  /\ pc = "status"
  /\ pc' = "terminated"
  /\ UNCHANGED <<sharedVars, cacheVars, now, cycle_utc, available_hours, hi, pi, rf,
                 pf_now, exc, queryVars, secondVars, calcVars, gridVars, requestVars>>

\* get_cycle_status_cached raises, or its result has no cycle: "except Exception" of the loop
LoopError ==
  /\ pc = "status"
  /\ pc' = "sleep"
  /\ UNCHANGED <<sharedVars, cacheVars, now, cycle_utc, available_hours, hi, pi, rf,
                 pf_now, exc, queryVars, secondVars, calcVars, gridVars, requestVars>>

\* "with _STATUS_LOCK: _CYCLE_IN_USE["cycle_utc"] = cycle_utc"
ResetAcquire ==
  /\ pc = "reset_lock"
  /\ _STATUS_LOCK = "free"
  /\ _STATUS_LOCK' = "prefetch"
  /\ _CYCLE_IN_USE' = cycle_utc
  /\ pi' = 1
  /\ rf' = 1
  /\ pc' = "reset_status"
  /\ UNCHANGED <<_STATUS, cacheVars, now, cycle_utc, available_hours, hi,
                 pf_now, exc, queryVars, secondVars, calcVars, gridVars, requestVars>>

\* variant: the reset misses the last product
ResetProducts_Missing == <<"winds", "froude">>

\* "for product in _STATUS": the keys of _STATUS in insertion order
ResetProducts == <<"winds", "froude", "virga">>

\* one iteration of "for product in _STATUS: for fxx in range(1, MAX_FXX + 1):
\*                     _STATUS[product][fxx] = "pending""
\* the last one leaves "with _STATUS_LOCK:" and goes on to the hours
ResetStatus ==
  /\ pc = "reset_status"
  /\ _STATUS' = [_STATUS EXCEPT ![ResetProducts[pi]][rf] = "pending"]
  /\ IF rf < MAX_FXX
     THEN /\ rf' = rf + 1
          /\ UNCHANGED <<pi, pc, _STATUS_LOCK>>
     ELSE IF pi < Len(ResetProducts)
     THEN /\ rf' = 1
          /\ pi' = pi + 1
          /\ UNCHANGED <<pc, _STATUS_LOCK>>
     ELSE /\ rf' = 1
          /\ pi' = 1
          /\ _STATUS_LOCK' = "free"
          /\ pc' = EnterHours(available_hours)
  /\ UNCHANGED <<_CYCLE_IN_USE, cacheVars, now, cycle_utc, available_hours,
                 hi, pf_now, exc, queryVars, secondVars, calcVars, gridVars, requestVars>>

\* the next iteration of the double loop, or time.sleep(600) after the last one
Advance ==
  IF pi < Len(Products)
  THEN /\ pi' = pi + 1
       /\ hi' = hi
       /\ pc' = "examine"
  ELSE IF hi < Len(available_hours)
  THEN /\ pi' = 1
       /\ hi' = hi + 1
       /\ pc' = "examine"
  ELSE /\ pi' = 1
       /\ hi' = 1
       /\ pc' = "sleep"

\* variant: only "loading" is skipped
SkipStatuses_OnlyLoading == {"loading"}

\* variant: a not-yet-published hour is never tried again
SkipStatuses_WithUnavailable == {"ready", "loading", "unavailable"}

\* the statuses the pass does not fetch
SkipStatuses == {"ready", "loading"}

\* "with _STATUS_LOCK: current = _STATUS[product].get(fxx, "pending")"
\* "if current in ("ready", "loading"): continue" else "_fetch_one(product, cycle_utc, fxx)"
Examine ==
  /\ pc = "examine"
  /\ _STATUS_LOCK = "free"
  /\ LET current == _STATUS[curProduct][curFxx]
     IN  IF current \in SkipStatuses
         THEN Advance
         ELSE /\ pc' = "fetch_loading"
              /\ UNCHANGED <<hi, pi>>
  /\ UNCHANGED <<sharedVars, cacheVars, now, cycle_utc, available_hours, rf,
                 pf_now, exc, queryVars, secondVars, calcVars, gridVars, requestVars>>

\* set_status(product, fxx, value) of the prefetch thread
set_status(p, f, value) ==
  /\ _STATUS_LOCK = "free"
  /\ _STATUS' = [_STATUS EXCEPT ![p][f] = value]
  /\ UNCHANGED <<_CYCLE_IN_USE, _STATUS_LOCK>>

\* _fetch_one: set_status(product, fxx, "loading")
FetchLoading ==
  /\ pc = "fetch_loading"
  /\ set_status(curProduct, curFxx, "loading")
  /\ pc' = "fetch_call"
  /\ UNCHANGED <<cacheVars, now, cycle_utc, available_hours, hi, pi, rf,
                 pf_now, exc, queryVars, secondVars, calcVars, gridVars, requestVars>>

\* the parameters of get_hrrr_gusts_cached, get_froude_cached and get_virga_cached
GetterParams(p) ==
  IF p = "winds" THEN {"fxx", "ttl_seconds"}
  ELSE {"cycle_utc", "fxx", "ttl_seconds"}

\* the keyword arguments _fetch_one and the routes pass to every cached getter
CallKwargs == {"cycle_utc", "fxx", "ttl_seconds"}

\* Python raises TypeError before the body runs when a keyword is not a parameter
CallRaisesTypeError(p) == ~(CallKwargs \subseteq GetterParams(p))

\* _fetch_one: the call of the product's cached getter, up to its cache test:
\* "now = time.time(); cached = _CACHE.get(key); if cached is None or ..."
FetchCall ==
  /\ pc = "fetch_call"
  /\ IF CallRaisesTypeError(curProduct)
     THEN /\ exc' = TypeErrorText
          /\ pc' = "fetch_except"
          /\ UNCHANGED pf_now
     ELSE IF IsMiss(CacheOf(curProduct)[<<cycle_utc, curFxx>>], now, PREFETCH_TTL)
     THEN /\ pf_now' = now
          /\ pc' = "fetch_compute"
          /\ UNCHANGED exc
     ELSE /\ pc' = "fetch_ready"
          /\ UNCHANGED <<pf_now, exc>>
  /\ UNCHANGED <<sharedVars, cacheVars, now, cycle_utc, available_hours, hi, pi, rf,
                 queryVars, secondVars, calcVars, gridVars, requestVars>>

\* fetch_froude / fetch_virga returns and the getter stores
\* "_CACHE[key] = {"ts": now, "data": ...}"
FetchComputeOk ==
  /\ pc = "fetch_compute"
  /\ Store(curProduct, <<cycle_utc, curFxx>>, pf_now, Payload(cycle_utc, curFxx))
  /\ pf_now' = 0
  /\ pc' = "fetch_ready"
  /\ UNCHANGED <<sharedVars, now, cycle_utc, available_hours, hi, pi, rf,
                 exc, queryVars, secondVars, calcVars, gridVars, requestVars>>

\* fetch_froude / fetch_virga raises: nothing is stored, _fetch_one catches
FetchComputeRaise ==
  /\ pc = "fetch_compute"
  /\ \E m \in FetchErrors : exc' = m
  /\ pf_now' = 0
  /\ pc' = "fetch_except"
  /\ UNCHANGED <<sharedVars, cacheVars, now, cycle_utc, available_hours, hi, pi, rf,
                 queryVars, secondVars, calcVars, gridVars, requestVars>>

\* _fetch_one: set_status(product, fxx, "ready")
FetchReady ==
  /\ pc = "fetch_ready"
  /\ set_status(curProduct, curFxx, "ready")
  /\ Advance
  /\ UNCHANGED <<cacheVars, now, cycle_utc, available_hours, rf,
                 pf_now, exc, queryVars, secondVars, calcVars, gridVars, requestVars>>

\* every str(e) the model raises
ErrorTexts == FetchErrors \cup {TypeErrorText}

\* the branch _fetch_one's except clause takes for each str(e)
NotYetPublishedTexts == {e \in ErrorTexts : LooksNotYetPublished(e)}

\* variant: a not-yet-published hour is put back to "pending"
FailureStatus_Pending(e) == IF e \in NotYetPublishedTexts THEN "pending" ELSE "error"

\* variant: an unexpected error leaves the status as _fetch_one first set it
FailureStatus_StaysLoading(e) == IF e \in NotYetPublishedTexts THEN "unavailable" ELSE "loading"

\* the status _fetch_one's except clause sets for str(e)
FailureStatus(e) == IF e \in NotYetPublishedTexts THEN "unavailable" ELSE "error"

\* variant: the except clause logs the error and sets no status
FetchExcept_LogsOnly ==
  /\ pc = "fetch_except"
  /\ exc' = NoExc
  /\ Advance
  /\ UNCHANGED <<sharedVars, cacheVars, now, cycle_utc, available_hours, rf,
                 pf_now, queryVars, secondVars, calcVars, gridVars, requestVars>>

\* _fetch_one: "except Exception as e: ... set_status(product, fxx, ...)"
FetchExcept ==
  /\ pc = "fetch_except"
  /\ set_status(curProduct, curFxx, FailureStatus(exc))
  /\ exc' = NoExc
  /\ Advance
  /\ UNCHANGED <<cacheVars, now, cycle_utc, available_hours, rf,
                 pf_now, queryVars, secondVars, calcVars, gridVars, requestVars>>

\* time.sleep(600) at the end of a pass
Sleep ==
  /\ pc = "sleep"
  /\ pc' = "status"
  /\ UNCHANGED <<sharedVars, cacheVars, now, cycle_utc, available_hours, hi, pi, rf,
                 pf_now, exc, queryVars, secondVars, calcVars, gridVars, requestVars>>

(***************************************************************************)
(* The status-query thread: /api/cache/status -> get_all_status.           *)
(***************************************************************************)
QueryCall ==
  /\ q_pc = "idle"
  /\ q_pc' = "q_lock"
  /\ UNCHANGED <<snapshot, sharedVars, cacheVars, now, prefetchVars, requestVars, secondVars, calcVars, gridVars>>

\* variant: get_all_status reads without taking the lock
QueryMayEnter_NoLock == TRUE

\* whether get_all_status may enter its critical section
QueryMayEnter == _STATUS_LOCK = "free"

\* "with _STATUS_LOCK:" of get_all_status
QueryAcquire ==
  /\ q_pc = "q_lock"
  /\ QueryMayEnter
  /\ _STATUS_LOCK' = IF _STATUS_LOCK = "free" THEN "query" ELSE _STATUS_LOCK
  /\ q_pc' = "q_cycle"
  /\ UNCHANGED <<_STATUS, _CYCLE_IN_USE, snapshot, cacheVars, now, prefetchVars, requestVars, secondVars, calcVars, gridVars>>

\* "cycle_utc": _CYCLE_IN_USE["cycle_utc"]
QueryReadCycle ==
  /\ q_pc = "q_cycle"
  /\ snapshot' = [snapshot EXCEPT !.cycle_utc = _CYCLE_IN_USE]
  /\ q_pc' = "q_products"
  /\ UNCHANGED <<sharedVars, cacheVars, now, prefetchVars, requestVars, secondVars, calcVars, gridVars>>

\* "products": {p: dict(v) for p, v in _STATUS.items()}
QueryReadProducts ==
  /\ q_pc = "q_products"
  /\ snapshot' = [snapshot EXCEPT !.products = _STATUS]
  /\ q_pc' = "q_unlock"
  /\ UNCHANGED <<sharedVars, cacheVars, now, prefetchVars, requestVars, secondVars, calcVars, gridVars>>

\* leaving "with _STATUS_LOCK:"; the dict is returned to the route, which sends it
QueryRelease ==
  /\ q_pc = "q_unlock"
  /\ _STATUS_LOCK' = IF _STATUS_LOCK = "query" THEN "free" ELSE _STATUS_LOCK
  /\ snapshot' = NoSnapshot
  /\ q_pc' = "idle"
  /\ UNCHANGED <<_STATUS, _CYCLE_IN_USE, cacheVars, now, prefetchVars, requestVars, secondVars, calcVars, gridVars>>

(***************************************************************************)
(* The request thread: api_winds_colorado, api_froude_colorado,            *)
(* api_virga_colorado.                                                     *)
(***************************************************************************)
\* values of the route's "ttl" query argument
RequestTTLs == {1, 2 * DEFAULT_TTL}

\* the route reads fxx, cycle_utc and ttl from the request; it has no "ttl" argument:
\* ttl = int(os.environ.get("<PRODUCT>_TTL", "600"))
RequestCall ==
  /\ r_pc = "idle"
  /\ \E p \in ProductSet, c \in Cycles, f \in RequestFxx :
       req' = [product |-> p, cycle_utc |-> c, fxx |-> f, ttl |-> DEFAULT_TTL]
  /\ r_pc' = "r_get"
  /\ UNCHANGED <<sharedVars, cacheVars, now, prefetchVars, queryVars, secondVars, calcVars, gridVars, r_now, r_result>>

\* the same with a "ttl" argument: ttl = int(request.args.get("ttl", ...))
RequestCallTTL ==
  /\ r_pc = "idle"
  /\ \E p \in ProductSet, c \in Cycles, f \in RequestFxx, ttl \in RequestTTLs :
       req' = [product |-> p, cycle_utc |-> c, fxx |-> f, ttl |-> ttl]
  /\ r_pc' = "r_get"
  /\ UNCHANGED <<sharedVars, cacheVars, now, prefetchVars, queryVars, secondVars, calcVars, gridVars, r_now, r_result>>

\* the markers of the routes' except clause
RouteMarkers == {"did not find", "not found", "no such file", "404", "unavailable"}

\* "not_ready = any(k in msg.lower() for k in [...])" for each str(e)
RouteNotReadyTexts == {m \in ErrorTexts : \E k \in RouteMarkers : Contains(k, Lower(m))}

\* what the route answers when its cached get raises str(e) = m
RouteFailure(m) ==
  IF m \in RouteNotReadyTexts
  THEN [kind |-> "not_available", data |-> NoData, msg |-> m]
  ELSE [kind |-> "raise", data |-> NoData, msg |-> m]

\* the call of the cached getter, up to its cache test
RequestGet ==
  /\ r_pc = "r_get"
  /\ IF CallRaisesTypeError(req.product)
     THEN /\ r_result' = RouteFailure(TypeErrorText)
          /\ r_pc' = "r_done"
          /\ UNCHANGED r_now
     ELSE LET cached == CacheOf(req.product)[<<req.cycle_utc, req.fxx>>]
          IN  IF IsMiss(cached, now, req.ttl)
              THEN /\ r_now' = now
                   /\ r_pc' = "r_compute"
                   /\ UNCHANGED r_result
              ELSE /\ r_pc' = "r_done"
                   /\ r_result' = [kind |-> "data", data |-> cached.data, msg |-> NoExc]
                   /\ UNCHANGED r_now
  /\ UNCHANGED <<sharedVars, cacheVars, now, prefetchVars, queryVars, secondVars, calcVars, gridVars, req>>

\* the calculator returns; the getter stores and returns _CACHE[key]["data"]
RequestComputeOk ==
  /\ r_pc = "r_compute"
  /\ LET d == Payload(req.cycle_utc, req.fxx)
     IN  /\ Store(req.product, <<req.cycle_utc, req.fxx>>, r_now, d)
         /\ r_result' = [kind |-> "data", data |-> d, msg |-> NoExc]
  /\ r_now' = 0
  /\ r_pc' = "r_done"
  /\ UNCHANGED <<sharedVars, now, prefetchVars, queryVars, secondVars, calcVars, gridVars, req>>

\* variant: the getter puts an empty entry under the key before the calculator runs
RequestComputeRaise_StoresEmpty ==
  /\ r_pc = "r_compute"
  /\ Store(req.product, <<req.cycle_utc, req.fxx>>, r_now, NoData)
  /\ \E m \in FetchErrors : r_result' = RouteFailure(m)
  /\ r_now' = 0
  /\ r_pc' = "r_done"
  /\ UNCHANGED <<sharedVars, now, prefetchVars, queryVars, secondVars, calcVars, gridVars, req>>

\* the calculator raises; nothing is stored
RequestComputeRaise ==
  /\ r_pc = "r_compute"
  /\ \E m \in FetchErrors : r_result' = RouteFailure(m)
  /\ r_now' = 0
  /\ r_pc' = "r_done"
  /\ UNCHANGED <<sharedVars, cacheVars, now, prefetchVars, queryVars, secondVars, calcVars, gridVars, req>>

\* the response is sent
RequestReturn ==
  /\ r_pc = "r_done"
  /\ r_pc' = "idle"
  /\ req' = NoRequest
  /\ r_result' = NoResult
  /\ UNCHANGED <<sharedVars, cacheVars, now, prefetchVars, queryVars, secondVars, calcVars, gridVars, r_now>>

(***************************************************************************)
(* A second request thread of the threaded server, running the same routes *)
(* while the first request is in progress.                                 *)
(***************************************************************************)
SecondCall ==
  /\ s_pc = "idle"
  /\ \E p \in ProductSet, c \in Cycles, f \in RequestFxx :
       s_req' = [product |-> p, cycle_utc |-> c, fxx |-> f, ttl |-> DEFAULT_TTL]
  /\ s_pc' = "s_get"
  /\ UNCHANGED <<sharedVars, cacheVars, now, prefetchVars, queryVars, requestVars, calcVars, gridVars,
                 s_now, s_result>>

\* the call of the cached getter, up to its cache test
SecondGet ==
  /\ s_pc = "s_get"
  /\ IF CallRaisesTypeError(s_req.product)
     THEN /\ s_result' = RouteFailure(TypeErrorText)
          /\ s_pc' = "s_done"
          /\ UNCHANGED s_now
     ELSE LET cached == CacheOf(s_req.product)[<<s_req.cycle_utc, s_req.fxx>>]
          IN  IF IsMiss(cached, now, s_req.ttl)
              THEN /\ s_now' = now
                   /\ s_pc' = "s_compute"
                   /\ UNCHANGED s_result
              ELSE /\ s_pc' = "s_done"
                   /\ s_result' = [kind |-> "data", data |-> cached.data, msg |-> NoExc]
                   /\ UNCHANGED s_now
  /\ UNCHANGED <<sharedVars, cacheVars, now, prefetchVars, queryVars, requestVars, calcVars, gridVars, s_req>>

\* the calculator returns; the getter stores and returns _CACHE[key]["data"]
SecondComputeOk ==
  /\ s_pc = "s_compute"
  /\ LET d == Payload(s_req.cycle_utc, s_req.fxx)
     IN  /\ Store(s_req.product, <<s_req.cycle_utc, s_req.fxx>>, s_now, d)
         /\ s_result' = [kind |-> "data", data |-> d, msg |-> NoExc]
  /\ s_now' = 0
  /\ s_pc' = "s_done"
  /\ UNCHANGED <<sharedVars, now, prefetchVars, queryVars, requestVars, calcVars, gridVars, s_req>>

\* the calculator raises; nothing is stored
SecondComputeRaise ==
  /\ s_pc = "s_compute"
  /\ \E m \in FetchErrors : s_result' = RouteFailure(m)
  /\ s_now' = 0
  /\ s_pc' = "s_done"
  /\ UNCHANGED <<sharedVars, cacheVars, now, prefetchVars, queryVars, requestVars, calcVars, gridVars, s_req>>

\* the response is sent
SecondReturn ==
  /\ s_pc = "s_done"
  /\ s_pc' = "idle"
  /\ s_req' = NoRequest
  /\ s_result' = NoResult
  /\ UNCHANGED <<sharedVars, cacheVars, now, prefetchVars, queryVars, requestVars, calcVars, gridVars, s_now>>

(***************************************************************************)
(* get_hrrr_gusts_cached called with the parameters it declares:           *)
(* get_hrrr_gusts_cached(fxx, ttl_seconds).                                *)
(***************************************************************************)
\* values of fxx: the parameter's default 0 and the routes' default 1
GustFxx == {0, 1}

\* the call get_hrrr_gusts_cached(fxx=f, ttl_seconds=600); it names no cycle
GustCall ==
  /\ r_pc = "idle"
  /\ \E f \in GustFxx :
       req' = [product |-> "winds", cycle_utc |-> None, fxx |-> f, ttl |-> DEFAULT_TTL]
  /\ r_pc' = "g_get"
  /\ UNCHANGED <<sharedVars, cacheVars, now, prefetchVars, queryVars, secondVars, calcVars, gridVars, r_now, r_result>>

\* "now = time.time(); if _CACHE["data"] is None or (now - _CACHE["ts"]) > ttl_seconds"
\* and, on a hit, "return _CACHE["data"]"
GustGet ==
  /\ r_pc = "g_get"
  /\ IF IsMiss(winds_CACHE, now, req.ttl)
     THEN /\ r_now' = now
          /\ r_pc' = "g_compute"
          /\ UNCHANGED r_result
     ELSE /\ r_pc' = "r_done"
          /\ r_result' = [kind |-> "data", data |-> winds_CACHE.data, msg |-> NoExc]
          /\ UNCHANGED r_now
  /\ UNCHANGED <<sharedVars, cacheVars, now, prefetchVars, queryVars, secondVars, calcVars, gridVars, req>>

\* fetch_hrrr_gusts(fxx) resolves the cycle itself with _find_latest_hrrr_cycle() and
\* returns; "_CACHE["data"] = ...; _CACHE["ts"] = now; return _CACHE["data"]"
GustComputeOk ==
  /\ r_pc = "g_compute"
  /\ \E c \in Cycles :
       LET d == Payload(c, req.fxx)
       IN  /\ winds_CACHE' = Entry(r_now, d)
           /\ r_result' = [kind |-> "data", data |-> d, msg |-> NoExc]
  /\ r_now' = 0
  /\ r_pc' = "r_done"
  /\ UNCHANGED <<sharedVars, froude_CACHE, virga_CACHE, now, prefetchVars, queryVars,
                 secondVars, calcVars, gridVars, req>>

\* fetch_hrrr_gusts(fxx) raises: neither assignment to _CACHE runs
GustComputeRaise ==
  /\ r_pc = "g_compute"
  /\ \E m \in FetchErrors : r_result' = [kind |-> "raise", data |-> NoData, msg |-> m]
  /\ r_now' = 0
  /\ r_pc' = "r_done"
  /\ UNCHANGED <<sharedVars, cacheVars, now, prefetchVars, queryVars, secondVars, calcVars, gridVars, req>>

(***************************************************************************)
(* _find_latest_hrrr_cycle(max_lookback_hours) of winds.py, froude.py and  *)
(* virga.py (the three copies differ in the Herbie product only).          *)
(***************************************************************************)
\* variant: the oldest hour of the range is probed first
Candidate_OldestFirst(h, m) == BaseHour - (m - h)

\* "candidate = base - timedelta(hours=h)"
Candidate(h, m) == BaseHour - h

\* variant: "except FileNotFoundError: continue"
ExceptCatches_FileNotFoundOnly == {"FileNotFoundError"}

\* "except Exception: continue": every class of ProbeErrors derives from Exception
ExceptCatches == {"FileNotFoundError", "ValueError"}

\* variant: the fallback is the oldest hour of the range
Fallback_OldestProbed(m) == BaseHour - m

\* "return base - timedelta(hours=2)"
Fallback(m) == BaseHour - 2

\* the call; "base = _now_utc_hour_naive()"
ResolveCall ==
  /\ cyc.pc = "idle"
  /\ \E m \in LookbackValues, o \in ProbeOutcomes :
       cyc' = [pc |-> "loop", max_lookback_hours |-> m, outcome |-> o,
               h |-> 0, probed |-> << >>, result |-> 0]
  /\ UNCHANGED <<sharedVars, cacheVars, now, prefetchVars, queryVars, requestVars, secondVars, gridVars,
                 avail, bv, frd, vrg>>

\* one iteration of "for h in range(max_lookback_hours + 1)": the probe of the
\* candidate returns ("return candidate") or raises ("except Exception: continue")
ResolveProbe ==
  /\ cyc.pc = "loop"
  /\ cyc.h <= cyc.max_lookback_hours
  /\ LET candidate == Candidate(cyc.h, cyc.max_lookback_hours)
         r == cyc.outcome[candidate]
     IN  cyc' = IF r = "ok"
                THEN [cyc EXCEPT !.probed = Append(@, candidate), !.result = candidate,
                                 !.pc = "found"]
                ELSE IF r \in ExceptCatches
                THEN [cyc EXCEPT !.probed = Append(@, candidate), !.h = @ + 1]
                ELSE [cyc EXCEPT !.probed = Append(@, candidate), !.pc = "raised"]
  /\ UNCHANGED <<sharedVars, cacheVars, now, prefetchVars, queryVars, requestVars, secondVars, gridVars,
                 avail, bv, frd, vrg>>

\* the loop is exhausted: "return base - timedelta(hours=2)"
ResolveFallback ==
  /\ cyc.pc = "loop"
  /\ cyc.h > cyc.max_lookback_hours
  /\ cyc' = [cyc EXCEPT !.result = Fallback(cyc.max_lookback_hours), !.pc = "fallback"]
  /\ UNCHANGED <<sharedVars, cacheVars, now, prefetchVars, queryVars, requestVars, secondVars, gridVars,
                 avail, bv, frd, vrg>>

\* the caller takes the result
ResolveReturn ==
  /\ cyc.pc \in {"found", "fallback", "raised"}
  /\ cyc' = NoResolve
  /\ UNCHANGED <<sharedVars, cacheVars, now, prefetchVars, queryVars, requestVars, secondVars, gridVars,
                 avail, bv, frd, vrg>>

(***************************************************************************)
(* The availability status of one cycle: inventory probes of the forecast  *)
(* hours 1..12 on a bounded worker pool, aggregated into a sorted list and *)
(* a percentage.                                                           *)
(***************************************************************************)
\* insertion of x into an ascending list
RECURSIVE Insert(_, _)
Insert(x, sq) ==
  IF Len(sq) = 0 THEN <<x>>
  ELSE IF x <= Head(sq) THEN <<x>> \o sq
  ELSE <<Head(sq)>> \o Insert(x, Tail(sq))

\* sorted(sq)
RECURSIVE sorted(_)
sorted(sq) == IF Len(sq) = 0 THEN << >> ELSE Insert(Head(sq), sorted(Tail(sq)))

\* variant: the hours are listed in the order their probes completed
AvailableHours_CompletionOrder(done) == done

\* the available hours, aggregated into a sorted list
AvailableHours(done) == sorted(done)

\* the percentage of the hours that are available
PctComplete(hours) == (100 * Len(hours)) \div TOTAL_HOURS

\* the status of a cycle is asked for; every hour's probe is queued
StatusCall ==
  /\ avail.pc = "idle"
  /\ \E ok \in ProbeSuccessSets :
       avail' = [pc |-> "probing", ok |-> ok, next |-> 1, inflight |-> {}, done |-> << >>,
                 available_hours |-> << >>, pct_complete |-> 0]
  /\ UNCHANGED <<sharedVars, cacheVars, now, prefetchVars, queryVars, requestVars, secondVars, gridVars,
                 cyc, bv, frd, vrg>>

\* an idle worker takes the next queued probe
ProbeStart ==
  /\ avail.pc = "probing"
  /\ avail.next <= TOTAL_HOURS
  /\ Cardinality(avail.inflight) < MaxWorkers
  /\ avail' = [avail EXCEPT !.inflight = @ \cup {avail.next}, !.next = @ + 1]
  /\ UNCHANGED <<sharedVars, cacheVars, now, prefetchVars, queryVars, requestVars, secondVars, gridVars,
                 cyc, bv, frd, vrg>>

\* one of the running probes completes; its hour is collected if it succeeded
ProbeFinish ==
  /\ avail.pc = "probing"
  /\ \E f \in avail.inflight :
       avail' = [avail EXCEPT !.inflight = @ \ {f},
                              !.done = IF f \in avail.ok THEN Append(@, f) ELSE @]
  /\ UNCHANGED <<sharedVars, cacheVars, now, prefetchVars, queryVars, requestVars, secondVars, gridVars,
                 cyc, bv, frd, vrg>>

\* every probe has completed: the cycle's entry is built
StatusAggregate ==
  /\ avail.pc = "probing"
  /\ avail.next > TOTAL_HOURS
  /\ avail.inflight = {}
  /\ avail' = [avail EXCEPT !.available_hours = AvailableHours(avail.done),
                            !.pct_complete = PctComplete(avail.done),
                            !.pc = "done"]
  /\ UNCHANGED <<sharedVars, cacheVars, now, prefetchVars, queryVars, requestVars, secondVars, gridVars,
                 cyc, bv, frd, vrg>>

\* the caller takes the status
StatusReturn ==
  /\ avail.pc = "done"
  /\ avail' = NoAvail
  /\ UNCHANGED <<sharedVars, cacheVars, now, prefetchVars, queryVars, requestVars, secondVars, gridVars,
                 cyc, bv, frd, vrg>>

(***************************************************************************)
(* froude.py: _potential_temp, _brunt_vaisala, _classify and the point     *)
(* list of fetch_froude.                                                   *)
(***************************************************************************)
\* (1000.0 / p_mb) ** 0.286 to two decimals: 1.05 for 850 mb, 1.22 for 500 mb
PowFactor(p_mb) == IF p_mb = 850 THEN Num(105, 100) ELSE Num(122, 100)

\* "return T_K * (1000.0 / p_mb) ** 0.286"
_potential_temp(T_K, p_mb) == FMul(T_K, PowFactor(p_mb))

\* the floor of the clamp, 1e-6
N2_FLOOR == Num(1, 1000000)

\* "(G / theta_mean) * (delta_theta / delta_z)"
RawN2(T_850, T_500, gh_850, gh_500) ==
  LET theta_850 == _potential_temp(T_850, 850)
      theta_500 == _potential_temp(T_500, 500)
      theta_mean == FMul(Num(1, 2), FAdd(theta_850, theta_500))
      delta_theta == FSub(theta_500, theta_850)
      delta_z == FSub(gh_500, gh_850)
  IN  FMul(FDiv(G, theta_mean), FDiv(delta_theta, delta_z))

\* "N2 = np.maximum(..., 1e-6); return np.sqrt(N2)"
_brunt_vaisala(T_850, T_500, gh_850, gh_500) ==
  FSqrt(FMaximum(RawN2(T_850, T_500, gh_850, gh_500), N2_FLOOR))

\* "N = _brunt_vaisala(T850_co, T500_co, GH850_co, GH500_co)" for one cell
StabilityCall ==
  /\ bv.pc = "idle"
  /\ \E t8 \in T850Values, t5 \in T500Values, g8 \in GH850Values, g5 \in GH500Values :
       bv' = [pc |-> "done", T_850 |-> t8, T_500 |-> t5, gh_850 |-> g8, gh_500 |-> g5,
              N |-> _brunt_vaisala(t8, t5, g8, g5)]
  /\ UNCHANGED <<sharedVars, cacheVars, now, prefetchVars, queryVars, requestVars, secondVars, gridVars,
                 cyc, avail, frd, vrg>>

\* the next cell
StabilityReturn ==
  /\ bv.pc = "done"
  /\ bv' = NoStability
  /\ UNCHANGED <<sharedVars, cacheVars, now, prefetchVars, queryVars, requestVars, secondVars, gridVars,
                 cyc, avail, frd, vrg>>

\* variant: the third mask is "(fr >= 0.8) & (fr < 1.5)"
_classify_StrictUpper(fr) ==
  LET c1 == IF FLt(fr, Num(1, 2)) THEN 1 ELSE 0
      c2 == IF FLe(Num(1, 2), fr) /\ FLt(fr, Num(8, 10)) THEN 2 ELSE c1
      c3 == IF FLe(Num(8, 10), fr) /\ FLt(fr, Num(15, 10)) THEN 3 ELSE c2
  IN  IF FLt(Num(15, 10), fr) THEN 4 ELSE c3

\* _classify for one cell: "cat = np.zeros_like(...)" and the four masked assignments
_classify(fr) ==
  LET c1 == IF FLt(fr, Num(1, 2)) THEN 1 ELSE 0
      c2 == IF FLe(Num(1, 2), fr) /\ FLt(fr, Num(8, 10)) THEN 2 ELSE c1
      c3 == IF FLe(Num(8, 10), fr) /\ FLe(fr, Num(15, 10)) THEN 3 ELSE c2
  IN  IF FLt(Num(15, 10), fr) THEN 4 ELSE c3

\* fetch_froude reaches "fr = np.abs(u) / (N * h)"
FroudeCall ==
  /\ frd.pc = "idle"
  /\ frd' = [NoFroude EXCEPT !.pc = "loop"]
  /\ UNCHANGED <<sharedVars, cacheVars, now, prefetchVars, queryVars, requestVars, secondVars, gridVars,
                 cyc, avail, bv, vrg>>

\* one cell: "fr = np.clip(fr, 0, 10); cat = _classify(fr)" and one pass of the loop
\* that builds the points: "if np.isnan(fr[i, j]): continue; points.append({...})"
FroudeCell ==
  /\ frd.pc = "loop"
  /\ frd.i < MaxCells
  /\ \E ratio \in RatioValues :
       LET fr == FClip(ratio, Num(0, 1), Num(10, 1))
           cat == _classify(fr)
       IN  frd' = [frd EXCEPT !.i = @ + 1, !.fr = fr, !.cat = cat,
                              !.points = IF IsNaN(fr) THEN @
                                         ELSE Append(@, [fr |-> FRound(fr, 1000), cat |-> cat])]
  /\ UNCHANGED <<sharedVars, cacheVars, now, prefetchVars, queryVars, requestVars, secondVars, gridVars,
                 cyc, avail, bv, vrg>>

\* fetch_froude returns the payload
FroudeReturn ==
  /\ frd.pc = "loop"
  /\ frd.i = MaxCells
  /\ frd' = NoFroude
  /\ UNCHANGED <<sharedVars, cacheVars, now, prefetchVars, queryVars, requestVars, secondVars, gridVars,
                 cyc, avail, bv, vrg>>

(***************************************************************************)
(* virga.py: the upper-cloud gate, _virga_category and the point list of   *)
(* fetch_virga.                                                            *)
(***************************************************************************)
\* variant: the gate tests the value as it is reported, round(max_upper_rh, 1)
UpperCloudPresent_Rounded(max_upper_rh) ==
  max_upper_rh.k = "num" /\ FLe(Num(80, 1), FRound(max_upper_rh, 10))

\* "upper_cloud_present = max_upper_rh >= 80.0"
UpperCloudPresent(max_upper_rh) == FLe(Num(80, 1), max_upper_rh)

\* variant: "if vpct <= 20.0: continue"
Negligible_Inclusive(vpct) == FLe(vpct, Num(20, 1))

\* "if vpct < 20.0: continue"
Negligible(vpct) == FLt(vpct, Num(20, 1))

\* _virga_category for one cell: "cat = np.zeros_like(...)" and the four masked
\* assignments, each overriding the one before
_virga_category(pct) ==
  LET c1 == IF FLe(Num(20, 1), pct) THEN 1 ELSE 0
      c2 == IF FLe(Num(40, 1), pct) THEN 2 ELSE c1
      c3 == IF FLe(Num(60, 1), pct) THEN 3 ELSE c2
  IN  IF FLe(Num(80, 1), pct) THEN 4 ELSE c3

\* fetch_virga reaches "upper_cloud_present = max_upper_rh >= 80.0"
VirgaCall ==
  /\ vrg.pc = "idle"
  /\ vrg' = [NoVirga EXCEPT !.pc = "loop"]
  /\ UNCHANGED <<sharedVars, cacheVars, now, prefetchVars, queryVars, requestVars, secondVars, gridVars,
                 cyc, avail, bv, frd>>

\* one cell: "virga_pct = np.where(upper_cloud_present, max_rh_decrease, 0.0);
\* virga_pct = np.clip(virga_pct, 0.0, 100.0); cat = _virga_category(virga_pct)" and one
\* pass of the loop that builds the points
VirgaCell ==
  /\ vrg.pc = "loop"
  /\ vrg.i < MaxCells
  /\ \E u \in UpperRHValues, dec \in DecreaseValues :
       LET gated == IF UpperCloudPresent(u) THEN dec ELSE Num(0, 1)
           virga_pct == FClip(gated, Num(0, 1), Num(100, 1))
           cat == _virga_category(virga_pct)
       IN  vrg' = [vrg EXCEPT
                     !.i = @ + 1, !.max_upper_rh = u, !.max_rh_decrease = dec,
                     !.virga_pct = virga_pct, !.cat = cat,
                     !.points = IF Negligible(virga_pct) THEN @
                                ELSE Append(@, [virga_pct |-> FRound(virga_pct, 10),
                                                cat |-> cat,
                                                upper_rh |-> FRound(u, 10)])]
  /\ UNCHANGED <<sharedVars, cacheVars, now, prefetchVars, queryVars, requestVars, secondVars, gridVars,
                 cyc, avail, bv, frd>>

\* fetch_virga returns the payload
VirgaReturn ==
  /\ vrg.pc = "loop"
  /\ vrg.i = MaxCells
  /\ vrg' = NoVirga
  /\ UNCHANGED <<sharedVars, cacheVars, now, prefetchVars, queryVars, requestVars, secondVars, gridVars,
                 cyc, avail, bv, frd>>

(***************************************************************************)
(* fetch_hrrr_gusts of winds.py from "gust_da = gust_da.load()" on, for    *)
(* one row of the grid, called by get_hrrr_gusts_cached at a miss.         *)
(* Latitudes and longitudes are counted in tenths of a degree.             *)
(***************************************************************************)
\* "CO_LAT_MIN = 36.8", "CO_LAT_MAX = 41.2", "CO_LON_MIN = -109.2", "CO_LON_MAX = -101.9"
CO_LAT_MIN == 368
CO_LAT_MAX == 412
CO_LON_MIN == -1092
CO_LON_MAX == -1019

\* grid points <<latitude, longitude>> as decoded from a file: 39.0 N at 255.0 and at
\* -105.0 (inside the box), at 260.0 (east of it), 45.0 N (north of it), and longitudes
\* at and beyond the ends of (-180, 540]
GridPoints ==
  {<<390, 2550>>, <<390, -1050>>, <<390, 2600>>, <<450, 2550>>, <<390, -1800>>, <<390, 5410>>}
\* gusts in m/s: plausible, beyond the ends of [0, 150], and a missing value
GustValues == {Num(10, 1), Num(151, 1), Num(-1, 1), NaN}

\* "np.where(lon2d > 180, lon2d - 360, lon2d)" for one grid point
NormalizeLon(L) == IF L > 1800 THEN L - 3600 ELSE L

\* variant: the eastern edge of the box is not compared
InBox_NoEastEdge(lat, lon) ==
  /\ lat >= CO_LAT_MIN /\ lat <= CO_LAT_MAX
  /\ lon >= CO_LON_MIN

\* "(lat2d >= CO_LAT_MIN) & (lat2d <= CO_LAT_MAX) & (lon2d >= CO_LON_MIN) &
\* (lon2d <= CO_LON_MAX)" for one grid point
InBox(lat, lon) ==
  /\ lat >= CO_LAT_MIN /\ lat <= CO_LAT_MAX
  /\ lon >= CO_LON_MIN /\ lon <= CO_LON_MAX

\* "np.where(mask)": the positions of a row that the mask selects
MaskCols(lat2d, lon2d) == {j \in 1..Len(lat2d) : InBox(lat2d[j], lon2d[j])}

Min(S) == CHOOSE x \in S : \A y \in S : x <= y
Max(S) == CHOOSE x \in S : \A y \in S : x >= y

\* "arr[r0:r1, c0:c1][::step, ::step]" with step = 2, for a row: c0 = cols.min(),
\* c1 = cols.max() + 1
ClipRow(arr, cols) ==
  LET c0 == Min(cols)
      n == Max(cols) - c0 + 1
  IN  [k \in 1..((n + 1) \div 2) |-> arr[c0 + 2 * (k - 1)]]

\* "gust_co * 1.94384" for one grid point
ToKnots(g) == FMul(g, Num(194384, 100000))

\* the text of the ValueError of an empty mask in fetch_hrrr_gusts
GustRegionEmptyText ==
  "No HRRR grid points found inside the Colorado bounding box. Check CO_LAT/LON constants in winds.py."

\* the calculators of the three products are run one at a time
OthersIdle(a, b) == a.pc = "idle" /\ b.pc = "idle"

\* "_CACHE["data"] = fetch_hrrr_gusts(fxx=fxx)" enters the function; the file is read:
\* "lat2d = ...values; lon2d = gust_da.coords["longitude"].values"
GustFetchCall ==
  /\ r_pc = "g_compute"
  /\ gst.pc = "idle" /\ OthersIdle(ffl, vcol)
  /\ \E row \in [1..MaxCells -> GridPoints], gs \in [1..MaxCells -> GustValues] :
       gst' = [pc |-> "normalize",
               lat2d |-> [j \in 1..MaxCells |-> row[j][1]],
               coords_lon |-> [j \in 1..MaxCells |-> row[j][2]],
               lon2d |-> [j \in 1..MaxCells |-> row[j][2]],
               gust_arr |-> gs,
               lat_ds |-> << >>, lon_ds |-> << >>, gust_ds |-> << >>,
               i |-> 0, points |-> << >>]
  /\ UNCHANGED <<sharedVars, cacheVars, now, prefetchVars, queryVars, requestVars,
                 secondVars, calcVars, ffl, vcol>>

\* "lon2d = np.where(lon2d > 180, lon2d - 360, lon2d); gust_arr = gust_da.values"
GustNormalize ==
  /\ gst.pc = "normalize"
  /\ gst' = [gst EXCEPT !.pc = "clip",
                        !.lon2d = [j \in 1..Len(gst.lon2d) |-> NormalizeLon(gst.lon2d[j])]]
  /\ UNCHANGED <<sharedVars, cacheVars, now, prefetchVars, queryVars, requestVars,
                 secondVars, calcVars, ffl, vcol>>

\* "mask = ...; rows, cols = np.where(mask); if len(rows) == 0: raise ValueError(...)";
\* else the slices, "gust_kt = gust_co * 1.94384" and the 2x downsampling
GustClip ==
  /\ gst.pc = "clip"
  /\ LET cols == MaskCols(gst.lat2d, gst.lon2d)
     IN  IF cols = {}
         THEN /\ gst' = [gst EXCEPT !.pc = "raised"]
              /\ r_result' = [kind |-> "raise", data |-> NoData, msg |-> GustRegionEmptyText]
              /\ r_now' = 0
              /\ r_pc' = "r_done"
         ELSE /\ gst' = [gst EXCEPT !.pc = "points", !.i = 1,
                           !.lat_ds = ClipRow(gst.lat2d, cols),
                           !.lon_ds = ClipRow(gst.lon2d, cols),
                           !.gust_ds = LET co == ClipRow(gst.gust_arr, cols)
                                       IN  [k \in 1..Len(co) |-> ToKnots(co[k])]]
              /\ UNCHANGED <<r_result, r_now, r_pc>>
  /\ UNCHANGED <<sharedVars, cacheVars, now, prefetchVars, queryVars, req,
                 secondVars, calcVars, ffl, vcol>>

\* one pass of "for j in range(nx)": "g = float(gust_ds[i, j]); if np.isnan(g): continue;
\* points.append({... "gust_kt": round(g, 1)})"
GustPoint ==
  /\ gst.pc = "points"
  /\ gst.i <= Len(gst.gust_ds)
  /\ LET g == gst.gust_ds[gst.i]
     IN  gst' = [gst EXCEPT !.i = gst.i + 1,
                   !.points = IF IsNaN(g) THEN gst.points
                              ELSE Append(gst.points,
                                     [lat |-> gst.lat_ds[gst.i], lon |-> gst.lon_ds[gst.i],
                                      gust_kt |-> FRound(g, 10)])]
  /\ UNCHANGED <<sharedVars, cacheVars, now, prefetchVars, queryVars, requestVars,
                 secondVars, calcVars, ffl, vcol>>

\* "return {...}" and, in the getter, "_CACHE["data"] = ...; _CACHE["ts"] = now;
\* return _CACHE["data"]"; the cycle is the one _find_latest_hrrr_cycle() resolved
GustFetchReturn ==
  /\ gst.pc = "points"
  /\ gst.i > Len(gst.gust_ds)
  /\ gst' = [gst EXCEPT !.pc = "returned"]
  /\ \E c \in Cycles :
       LET d == Payload(c, req.fxx)
       IN  /\ winds_CACHE' = Entry(r_now, d)
           /\ r_result' = [kind |-> "data", data |-> d, msg |-> NoExc]
  /\ r_now' = 0
  /\ r_pc' = "r_done"
  /\ UNCHANGED <<sharedVars, froude_CACHE, virga_CACHE, now, prefetchVars, queryVars,
                 secondVars, calcVars, req, ffl, vcol>>

\* the frame of fetch_hrrr_gusts is discarded
GustFetchExit ==
  /\ gst.pc \in {"returned", "raised"}
  /\ gst' = NoGust
  /\ UNCHANGED <<sharedVars, cacheVars, now, prefetchVars, queryVars, requestVars,
                 secondVars, calcVars, ffl, vcol>>

(***************************************************************************)
(* fetch_froude of froude.py from its first _read_field to the clipping.   *)
(***************************************************************************)
\* the fields fetch_froude reads from the prs file, in the order of its _read_field calls
PrsFields == <<"U700", "V700", "T850", "T500", "GH850", "GH500">>
PrsFieldSet == {PrsFields[k] : k \in 1..Len(PrsFields)}
\* the names fetch_froude tries in the sfc file for the terrain
TerrainNames == <<"Orography", "Geometric height">>

\* contents of a downloaded prs file: complete, or one field short
PrsContents == {PrsFieldSet} \cup {PrsFieldSet \ {f} : f \in PrsFieldSet}
\* contents of a downloaded sfc file
SfcContents == SUBSET {"Orography", "Geometric height"}

\* the text of the ValueError of _clip_to_colorado and of fetch_virga
RegionEmptyText == "No grid points inside Colorado bounding box."

\* "try: orog = _read_field(sfc_path, "Orography", ...) except ValueError: try:
\* orog = _read_field(sfc_path, "Geometric height", ...) except ValueError: orog = GH850"
TerrainSource(sfc) ==
  IF TerrainNames[1] \in sfc THEN TerrainNames[1]
  ELSE IF TerrainNames[2] \in sfc THEN TerrainNames[2]
  ELSE "GH850"

\* fetch_froude(cycle_utc, fxx) after both downloads: the files hold what they hold
FroudeFieldsCall ==
  /\ ffl.pc = "idle" /\ OthersIdle(gst, vcol) /\ r_pc = "idle"
  /\ \E prs \in PrsContents, sfc \in SfcContents, row \in [1..MaxCells -> GridPoints] :
       ffl' = [pc |-> "read", prs |-> prs, sfc |-> sfc, k |-> 1,
               lat2d |-> [j \in 1..MaxCells |-> row[j][1]],
               coords_lon |-> [j \in 1..MaxCells |-> row[j][2]],
               lon2d |-> << >>, orog |-> "", lat_co |-> << >>, lon_co |-> << >>,
               exc |-> NoExc]
  /\ UNCHANGED <<sharedVars, cacheVars, now, prefetchVars, queryVars, requestVars,
                 secondVars, calcVars, gst, vcol>>

\* one _read_field(prs_path, name, level): "msgs = grbs.select(...)"; "except ValueError:
\* raise ValueError(f"Field not found: ...")"; the first call keeps lat2d and
\* "lon2d = np.where(lon2d > 180, lon2d - 360, lon2d)"
FroudeReadField ==
  /\ ffl.pc = "read"
  /\ ffl.k <= Len(PrsFields)
  /\ IF PrsFields[ffl.k] \in ffl.prs
     THEN ffl' = [ffl EXCEPT !.k = ffl.k + 1,
                    !.lon2d = IF ffl.k = 1
                              THEN [j \in 1..Len(ffl.coords_lon) |->
                                      NormalizeLon(ffl.coords_lon[j])]
                              ELSE ffl.lon2d]
     ELSE ffl' = [ffl EXCEPT !.pc = "raised", !.exc = "Field not found"]
  /\ UNCHANGED <<sharedVars, cacheVars, now, prefetchVars, queryVars, requestVars,
                 secondVars, calcVars, gst, vcol>>

\* the terrain: the two names tried in the sfc file, then GH850
FroudeReadTerrain ==
  /\ ffl.pc = "read"
  /\ ffl.k > Len(PrsFields)
  /\ ffl' = [ffl EXCEPT !.pc = "clip", !.orog = TerrainSource(ffl.sfc)]
  /\ UNCHANGED <<sharedVars, cacheVars, now, prefetchVars, queryVars, requestVars,
                 secondVars, calcVars, gst, vcol>>

\* _clip_to_colorado(U700, lat2d, lon2d, step), the first of seven calls with the same
\* mask: "if len(rows) == 0: raise ValueError(...)", else the slices
FroudeClip ==
  /\ ffl.pc = "clip"
  /\ LET cols == MaskCols(ffl.lat2d, ffl.lon2d)
     IN  IF cols = {}
         THEN ffl' = [ffl EXCEPT !.pc = "raised", !.exc = RegionEmptyText]
         ELSE ffl' = [ffl EXCEPT !.pc = "clipped",
                                 !.lat_co = ClipRow(ffl.lat2d, cols),
                                 !.lon_co = ClipRow(ffl.lon2d, cols)]
  /\ UNCHANGED <<sharedVars, cacheVars, now, prefetchVars, queryVars, requestVars,
                 secondVars, calcVars, gst, vcol>>

\* fetch_froude goes on to its computation, or the exception leaves it
FroudeFieldsExit ==
  /\ ffl.pc \in {"clipped", "raised"}
  /\ ffl' = NoFields
  /\ UNCHANGED <<sharedVars, cacheVars, now, prefetchVars, queryVars, requestVars,
                 secondVars, calcVars, gst, vcol>>

(***************************************************************************)
(* fetch_virga of virga.py from the scan of the prs file to the end of the *)
(* drying scan, for the first grid point of the clipped region.            *)
(***************************************************************************)
\* "LEVELS_MB = [500, 525, ..., 850]"
LEVELS_MB == [k \in 1..15 |-> 475 + 25 * k]
LevelSet == {LEVELS_MB[k] : k \in 1..Len(LEVELS_MB)}

\* what a downloaded prs file holds of each of the four fields, by level
VirgaContents ==
  {[T |-> LevelSet, Td |-> LevelSet, U |-> LevelSet, V |-> LevelSet],
   [T |-> LevelSet \ {600}, Td |-> LevelSet, U |-> LevelSet, V |-> LevelSet],
   [T |-> LevelSet, Td |-> LevelSet \ {850}, U |-> LevelSet, V |-> LevelSet],
   [T |-> LevelSet, Td |-> LevelSet, U |-> LevelSet \ {800}, V |-> LevelSet \ {800}],
   [T |-> LevelSet, Td |-> LevelSet, U |-> {500, 700}, V |-> {500, 700}],
   [T |-> LevelSet, Td |-> LevelSet, U |-> LevelSet, V |-> LevelSet \ {800}],
   [T |-> LevelSet, Td |-> LevelSet, U |-> {}, V |-> {}]}

\* grid points <<latitude, longitude>> of the prs file: inside, east and north of the box
VirgaGridPoints == {<<390, 2550>>, <<390, 2600>>, <<450, 2550>>}

\* relative humidity of a column, by level: one value on the levels of S, another elsewhere
RHProfiles ==
  {[lev \in LevelSet |-> IF lev \in S THEN Num(a, 1) ELSE Num(b, 1)] :
     S \in {{675, 700}, {l \in LevelSet : l <= 700}, {l \in LevelSet : l >= 750},
            {600, 850}, {525, 625, 725}},
     a \in {100, 90}, b \in {0, 50}}

\* the wind components of the column in m/s, by level
WindU(lev) == Num(3 * ((lev - 475) \div 25), 1)
WindV(lev) == Num(4 * ((lev - 475) \div 25), 1)

\* "np.sqrt(U[wind_lev]**2 + V[wind_lev]**2) * 1.94384" for whole numbers whose
\* sum of squares is a square
WindSpeedKt(u, v) ==
  LET q == u.n * u.n + v.n * v.n
  IN  ToKnots(Num(CHOOSE r \in 0..(Abs(u.n) + Abs(v.n)) : r * r = q, 1))

\* "min(U.keys(), key=lambda l: abs(l - lev_mid))": the first of the nearest keys in
\* the order of insertion, which is the order of LEVELS_MB
NearestLevel(keys, lev_mid) ==
  CHOOSE l \in keys :
    \A m \in keys : \/ Abs(l - lev_mid) < Abs(m - lev_mid)
                    \/ (Abs(l - lev_mid) = Abs(m - lev_mid) /\ l <= m)

\* "upper_levels = [lev for lev in LEVELS_MB if lev <= 700]"
upper_levels == SelectSeq(LEVELS_MB, LAMBDA lev : lev <= 700)

\* "window = [lev for lev in upper_levels if lev_top <= lev <= lev_bot]" with
\* "lev_bot = lev_top + window_mb", window_mb = 200
Window(lev_top) == SelectSeq(upper_levels, LAMBDA lev : lev_top <= lev /\ lev <= lev_top + 200)

RECURSIVE SumOver(_, _)
SumOver(rh, w) == IF w = << >> THEN Num(0, 1) ELSE FAdd(rh[Head(w)], SumOver(rh, Tail(w)))

\* "np.mean([rh[lev] for lev in window], axis=0)" for one grid point
MeanRH(rh, w) == FDiv(SumOver(rh, w), Num(Len(w), 1))

\* "scan_levels = sorted(LEVELS_MB, reverse=True)"
scan_levels == [k \in 1..Len(LEVELS_MB) |-> LEVELS_MB[Len(LEVELS_MB) + 1 - k]]

\* fetch_virga(cycle_utc, fxx) after the download: "for grb in grbs" fills T_dict,
\* Td_dict, U_dict, V_dict and takes lat2d, lon2d from the first message kept
VirgaFieldsCall ==
  /\ vcol.pc = "idle" /\ OthersIdle(gst, ffl) /\ r_pc = "idle"
  /\ \E file \in VirgaContents, row \in [1..MaxCells -> VirgaGridPoints] :
       vcol' = [pc |-> "confirm", file |-> file,
                lat2d |-> [j \in 1..MaxCells |-> row[j][1]],
                coords_lon |-> [j \in 1..MaxCells |-> row[j][2]],
                lon2d |-> [j \in 1..MaxCells |-> NormalizeLon(row[j][2])],
                rh |-> << >>, Ukeys |-> {}, i |-> 0,
                max_upper_rh |-> NaN, max_rh_decrease |-> NaN,
                cloud_base_wind_kt |-> NaN, exc |-> NoExc]
  /\ UNCHANGED <<sharedVars, cacheVars, now, prefetchVars, queryVars, requestVars,
                 secondVars, calcVars, gst, ffl>>

\* "for lev in LEVELS_MB: for d, label in [(T_dict, "T"), (Td_dict, "Td")]:
\* if lev not in d: raise ValueError(f"Missing {label} at {lev} mb in ...")"
VirgaConfirm ==
  /\ vcol.pc = "confirm"
  /\ IF LevelSet \subseteq vcol.file.T /\ LevelSet \subseteq vcol.file.Td
     THEN vcol' = [vcol EXCEPT !.pc = "clip"]
     ELSE vcol' = [vcol EXCEPT !.pc = "raised", !.exc = "Missing"]
  /\ UNCHANGED <<sharedVars, cacheVars, now, prefetchVars, queryVars, requestVars,
                 secondVars, calcVars, gst, ffl>>

\* "mask = ...; if len(rows) == 0: raise ValueError(...)", then the loop that builds rh,
\* U and V: "if lev in U_dict: U[lev] = clip(U_dict[lev]); V[lev] = clip(V_dict[lev])"
\* raises KeyError when V_dict lacks a level U_dict has
VirgaClip ==
  /\ vcol.pc = "clip"
  /\ IF MaskCols(vcol.lat2d, vcol.lon2d) = {}
     THEN vcol' = [vcol EXCEPT !.pc = "raised", !.exc = RegionEmptyText]
     ELSE IF ~(vcol.file.U \subseteq vcol.file.V)
     THEN vcol' = [vcol EXCEPT !.pc = "raised", !.exc = "KeyError"]
     ELSE \E rh \in RHProfiles :
            vcol' = [vcol EXCEPT !.pc = "window", !.i = 1, !.rh = rh,
                                 !.Ukeys = vcol.file.U, !.max_upper_rh = Num(0, 1)]
  /\ UNCHANGED <<sharedVars, cacheVars, now, prefetchVars, queryVars, requestVars,
                 secondVars, calcVars, gst, ffl>>

\* one pass of "for i, lev_top in enumerate(upper_levels)": "if len(window) < 2:
\* continue; mean_rh = np.mean(...); max_upper_rh = np.maximum(max_upper_rh, mean_rh)"
VirgaWindow ==
  /\ vcol.pc = "window"
  /\ LET w == Window(upper_levels[vcol.i])
         last == vcol.i = Len(upper_levels)
     IN  vcol' = [vcol EXCEPT
                    !.max_upper_rh = IF Len(w) < 2 THEN vcol.max_upper_rh
                                     ELSE FMaximum(vcol.max_upper_rh, MeanRH(vcol.rh, w)),
                    !.i = IF last THEN 1 ELSE vcol.i + 1,
                    !.pc = IF last THEN "scan" ELSE "window",
                    !.max_rh_decrease = IF last THEN Num(0, 1) ELSE vcol.max_rh_decrease,
                    !.cloud_base_wind_kt = IF last THEN Num(0, 1)
                                           ELSE vcol.cloud_base_wind_kt]
  /\ UNCHANGED <<sharedVars, cacheVars, now, prefetchVars, queryVars, requestVars,
                 secondVars, calcVars, gst, ffl>>

\* variant: a later level replaces an equal decrease
Better_OnTies(decrease_here, max_rh_decrease) == FLe(max_rh_decrease, decrease_here)

\* "better = decrease_here > max_rh_decrease"
Better(decrease_here, max_rh_decrease) == FLt(max_rh_decrease, decrease_here)

\* one pass of "for lev_bot in scan_levels": "lev_top = lev_bot - 100; if lev_top not in
\* rh: continue"; the wind of the nearest level of U ("min" of no keys raises
\* ValueError); "np.where(better, ...)"
VirgaScan ==
  /\ vcol.pc = "scan"
  /\ LET lev_bot == scan_levels[vcol.i]
         lev_top == lev_bot - 100
         last == vcol.i = Len(scan_levels)
         nxt == [vcol EXCEPT !.i = IF last THEN vcol.i ELSE vcol.i + 1,
                             !.pc = IF last THEN "scanned" ELSE "scan"]
     IN  IF lev_top \notin LevelSet THEN vcol' = nxt
         ELSE IF vcol.Ukeys = {}
         THEN vcol' = [vcol EXCEPT !.pc = "raised", !.exc = "min() arg is an empty sequence"]
         ELSE LET decrease_here == FSub(vcol.rh[lev_bot], vcol.rh[lev_top])
                  wind_lev == NearestLevel(vcol.Ukeys, lev_bot - 50)
                  wspd_here == WindSpeedKt(WindU(wind_lev), WindV(wind_lev))
                  better == Better(decrease_here, vcol.max_rh_decrease)
              IN  vcol' = [nxt EXCEPT
                             !.max_rh_decrease = IF better THEN decrease_here
                                                 ELSE vcol.max_rh_decrease,
                             !.cloud_base_wind_kt = IF better THEN wspd_here
                                                    ELSE vcol.cloud_base_wind_kt]
  /\ UNCHANGED <<sharedVars, cacheVars, now, prefetchVars, queryVars, requestVars,
                 secondVars, calcVars, gst, ffl>>

\* fetch_virga goes on to its classification, or the exception leaves it
VirgaFieldsExit ==
  /\ vcol.pc \in {"scanned", "raised"}
  /\ vcol' = NoColumn
  /\ UNCHANGED <<sharedVars, cacheVars, now, prefetchVars, queryVars, requestVars,
                 secondVars, calcVars, gst, ffl>>

\* the calculators from their opened files to their grids
GridStep ==
  \/ (OthersIdle(ffl, vcol) /\ (GustCall \/ GustGet \/ RequestReturn))
  \/ GustFetchCall \/ GustNormalize \/ GustClip \/ GustPoint
  \/ GustFetchReturn \/ GustFetchExit
  \/ FroudeFieldsCall \/ FroudeReadField \/ FroudeReadTerrain \/ FroudeClip
  \/ FroudeFieldsExit
  \/ VirgaFieldsCall \/ VirgaConfirm \/ VirgaClip \/ VirgaWindow \/ VirgaScan
  \/ VirgaFieldsExit

SpecGrid == Init /\ [][GridStep]_vars

(***************************************************************************)
(* The wall clock, observed at the multiples of DEFAULT_TTL and one second *)
(* after them.                                                             *)
(***************************************************************************)
Instants == {t \in 0..MaxTime : t % DEFAULT_TTL \in {0, 1}}

Tick ==
  /\ \E t \in Instants : t > now /\ now' = t
  /\ UNCHANGED <<sharedVars, cacheVars, prefetchVars, queryVars, secondVars, calcVars, gridVars, requestVars>>

(***************************************************************************)
(* Specifications.                                                         *)
(***************************************************************************)
PrefetchStep ==
  \/ DelayedStart \/ GetCycleStatus \/ LoopError
  \/ ResetAcquire \/ ResetStatus \/ Examine
  \/ FetchLoading \/ FetchCall \/ FetchComputeOk \/ FetchComputeRaise
  \/ FetchReady \/ FetchExcept \/ Sleep

QueryStep ==
  \/ QueryCall \/ QueryAcquire \/ QueryReadCycle \/ QueryReadProducts \/ QueryRelease

RequestStep ==
  \/ RequestCall \/ RequestCallTTL \/ RequestGet \/ RequestComputeOk \/ RequestComputeRaise \/ RequestReturn

\* the prefetch thread and a concurrent status query
Next == PrefetchStep \/ QueryStep

Spec == Init /\ [][Next]_vars

\* the prefetch thread and the clock
NextServe == PrefetchStep \/ Tick

SpecServe == Init /\ [][NextServe]_vars

\* requests and the clock alone
NextCache == RequestStep \/ Tick

SpecCache == Init /\ [][NextCache]_vars

SecondStep ==
  \/ SecondCall \/ SecondGet \/ SecondComputeOk \/ SecondComputeRaise \/ SecondReturn

\* two overlapping requests with the default ttl, and the clock
NextRace ==
  \/ RequestCall \/ RequestGet \/ RequestComputeOk \/ RequestComputeRaise \/ RequestReturn
  \/ SecondStep \/ Tick

SpecRace == Init /\ [][NextRace]_vars

GustStep ==
  \/ GustCall \/ GustGet \/ GustComputeOk \/ GustComputeRaise \/ RequestReturn

\* direct calls of the gust getter and the clock
NextGust == GustStep \/ Tick

SpecGust == Init /\ [][NextGust]_vars

\* calls of _find_latest_hrrr_cycle
NextResolve == ResolveCall \/ ResolveProbe \/ ResolveFallback \/ ResolveReturn

SpecResolve == Init /\ [][NextResolve]_vars

\* availability checks
NextAvail == StatusCall \/ ProbeStart \/ ProbeFinish \/ StatusAggregate \/ StatusReturn

SpecAvail == Init /\ [][NextAvail]_vars

\* the Froude computation of grid cells
NextFroude == StabilityCall \/ StabilityReturn \/ FroudeCall \/ FroudeCell \/ FroudeReturn

SpecFroude == Init /\ [][NextFroude]_vars

\* the virga classification of grid cells
NextVirga == VirgaCall \/ VirgaCell \/ VirgaReturn

SpecVirga == Init /\ [][NextVirga]_vars

\* the prefetch thread alone, scheduled forever, every calculator call returning
SpecLive == Init /\ [][PrefetchStep]_vars /\ WF_vars(PrefetchStep)

(***************************************************************************)
(* Properties.                                                             *)
(***************************************************************************)
Slots == ProductSet \X Hours
FinalStatuses == {"ready", "unavailable", "error"}
\* positions of the prefetch thread inside _fetch_one after "loading" is set
InFetch == {"fetch_call", "fetch_compute", "fetch_ready", "fetch_except"}

\* C1 as stated: a status changes only pending -> loading -> {ready, unavailable,
\* error}, loading being entered only from pending, or by the rollover reset to pending.
C1_OnlyFromPending ==
  [][\A sl \in Slots :
       LET old == _STATUS[sl[1]][sl[2]]
           new == _STATUS'[sl[1]][sl[2]]
       IN  new # old =>
             \/ new = "loading" /\ old = "pending"
             \/ new \in FinalStatuses /\ old = "loading"
             \/ new = "pending" /\ pc = "reset_status"]_vars

\* C1 amended: loading is entered only from pending, unavailable or error; ready,
\* unavailable and error are entered only from loading; the only other change is the
\* rollover reset to pending.
C1_Transitions ==
  [][\A sl \in Slots :
       LET old == _STATUS[sl[1]][sl[2]]
           new == _STATUS'[sl[1]][sl[2]]
       IN  new # old =>
             \/ new = "loading" /\ old \in {"pending", "unavailable", "error"}
             \/ new \in FinalStatuses /\ old = "loading"
             \/ new = "pending" /\ pc = "reset_status"]_vars

\* a failed slot is being fetched again next to a ready one
C1_Witness ==
  /\ pc = "fetch_call"
  /\ _STATUS["winds"][1] = "error"
  /\ _STATUS["froude"][1] = "ready"
  /\ _STATUS["virga"][1] = "loading"

AllPending == \A sl \in Slots : _STATUS[sl[1]][sl[2]] = "pending"

\* C2: a pass that finds the top cycle different from the last-seen cycle records it
\* and sets every (product, fxx) to pending before it examines or fetches anything for
\* the new cycle; a pass that finds the cycle unchanged resets nothing.
C2_ResetOnRollover ==
  /\ [](pc = "reset_lock" => cycle_utc # _CYCLE_IN_USE)
  /\ [](pc \in ({"examine", "fetch_loading"} \cup InFetch) => _CYCLE_IN_USE = cycle_utc)
  /\ [][(pc = "reset_status" /\ pc' # "reset_status")
           => (AllPending' /\ _CYCLE_IN_USE' = cycle_utc /\ _STATUS_LOCK' = "free")]_vars
  /\ [][(pc = "status" /\ cycle_utc' = _CYCLE_IN_USE)
           => (pc' # "reset_lock" /\ _STATUS' = _STATUS /\ _CYCLE_IN_USE' = _CYCLE_IN_USE)]_vars
  /\ [][(pc = "status" /\ pc' # "sleep" /\ cycle_utc' # _CYCLE_IN_USE)
           => pc' = "reset_lock"]_vars

\* a rollover reset under way: the new cycle is recorded, winds is reset, virga still
\* carries "ready" from the old cycle
C2_Witness ==
  /\ pc = "reset_status"
  /\ pi = Len(ResetProducts)
  /\ _CYCLE_IN_USE = cycle_utc
  /\ _STATUS["virga"][MAX_FXX] = "ready"
  /\ _STATUS["froude"][1] = "pending"

\* C3: when get_all_status has read its snapshot, the snapshot is the shared state of
\* one instant at which no reset is under way: its cycle_utc and its statuses are the
\* current ones together, so it never pairs the new cycle with statuses not yet reset.
C3_SnapshotAtomic ==
  q_pc = "q_unlock" =>
    /\ snapshot.cycle_utc = _CYCLE_IN_USE
    /\ snapshot.products = _STATUS
    /\ pc # "reset_status"
    /\ (pc = "reset_lock" => snapshot.cycle_utc # cycle_utc)

\* a status query is waiting for the lock while a rollover reset is half done
C3_Witness ==
  /\ q_pc = "q_lock"
  /\ pc = "reset_status"
  /\ pi > 1
  /\ _STATUS["winds"][1] = "pending"
  /\ \E sl \in Slots : _STATUS[sl[1]][sl[2]] = "ready"

\* C4: a slot that is ready or loading when the pass examines it is skipped (no
\* status change, no fetch), _fetch_one is entered only from such an examination of a
\* slot that is neither, and a ready status changes only by the rollover reset.
C4_ReadySkipped ==
  /\ [][(pc = "examine" /\ _STATUS[curProduct][curFxx] \in {"ready", "loading"})
           => (pc' \in {"examine", "sleep"} /\ _STATUS' = _STATUS
               /\ froude_CACHE' = froude_CACHE /\ virga_CACHE' = virga_CACHE)]_vars
  /\ [][(pc' = "fetch_loading" /\ pc # "fetch_loading")
           => (pc = "examine" /\ _STATUS[curProduct][curFxx] \notin {"ready", "loading"})]_vars
  /\ [][\A sl \in Slots :
          (_STATUS[sl[1]][sl[2]] = "ready" /\ _STATUS'[sl[1]][sl[2]] # "ready")
            => (pc = "reset_status" /\ _STATUS'[sl[1]][sl[2]] = "pending")]_vars

\* the pass examines a slot that is already ready
C4_Witness ==
  /\ pc = "examine"
  /\ _STATUS[curProduct][curFxx] = "ready"
  /\ _CYCLE_IN_USE = cycle_utc

LoadingSlots == {sl \in Slots : _STATUS[sl[1]][sl[2]] = "loading"}

\* C5: at most one slot is loading, it is the one _fetch_one is working on, and no
\* slot is loading when the prefetcher examines or starts the next one.
C5_OneLoading ==
  /\ Cardinality(LoadingSlots) <= 1
  /\ (pc \in InFetch => LoadingSlots = {<<curProduct, curFxx>>})
  /\ (pc \notin InFetch => LoadingSlots = {})

\* virga is being computed after froude was finished
C5_Witness ==
  /\ pc = "fetch_compute"
  /\ curProduct = "virga"
  /\ _STATUS["froude"][curFxx] = "ready"
  /\ _STATUS["virga"][curFxx] = "loading"

\* the error texts of the model that contain, lower-cased, one of "not found",
\* "did not find", "no such file", "404"
C6_NotYetTexts ==
  { "Field not found: name='Temperature' typeOfLevel='isobaricInhPa' level=850 in f.grib2",
    "HTTP Error 404: Not Found",
    "Did Not Find hrrr.t02z.wrfprsf01.grib2",
    "[Errno 2] No such file or directory" }

\* C6: _fetch_one sets ready exactly when the getter returned, unavailable when it
\* raised a text with a not-yet-published marker and error when it raised any other
\* text; in each case the pass goes on with the next slot or the sleep.
C6_Outcome ==
  /\ [](pc = "fetch_ready" => exc = NoExc)
  /\ [](pc = "fetch_except" => exc # NoExc)
  /\ [][(pc = "fetch_ready" /\ pc' # "fetch_ready")
           => (_STATUS'[curProduct][curFxx] = "ready" /\ pc' \in {"examine", "sleep"})]_vars
  /\ [][(pc = "fetch_except" /\ pc' # "fetch_except")
           => (/\ _STATUS'[curProduct][curFxx] =
                    (IF exc \in C6_NotYetTexts THEN "unavailable" ELSE "error")
               /\ pc' \in {"examine", "sleep"})]_vars
  /\ [][\A sl \in Slots :
          (_STATUS'[sl[1]][sl[2]] = "ready" /\ _STATUS[sl[1]][sl[2]] # "ready")
            => (pc = "fetch_ready" /\ sl = <<curProduct, curFxx>>)]_vars

\* one pass has left froude unavailable and virga in error
C6_Witness ==
  /\ pc = "sleep"
  /\ _STATUS["winds"][1] = "error"
  /\ _STATUS["froude"][1] = "unavailable"
  /\ _STATUS["virga"][1] = "error"

\* C7: a pass examines every available hour with every product in turn, and a slot it
\* finds unavailable or error is fetched again: set to loading, then its getter called.
C7_Retry ==
  /\ [][(pc = "examine" /\ <<pc, hi, pi>>' # <<pc, hi, pi>>
            /\ _STATUS[curProduct][curFxx] \in {"unavailable", "error"})
           => (pc' = "fetch_loading" /\ hi' = hi /\ pi' = pi)]_vars
  /\ [][(pc = "fetch_loading" /\ pc' # "fetch_loading")
           => (_STATUS'[curProduct][curFxx] = "loading" /\ pc' = "fetch_call"
               /\ hi' = hi /\ pi' = pi)]_vars
  /\ [][(pc = "fetch_call" /\ pc' # "fetch_call")
           => (pc' \in {"fetch_compute", "fetch_ready", "fetch_except"}
               /\ hi' = hi /\ pi' = pi)]_vars
  /\ [][(pc' = "examine" /\ pc \in {"status", "reset_status"})
           => (hi' = 1 /\ pi' = 1 /\ Len(available_hours') > 0)]_vars
  /\ [][(pc \in {"examine", "fetch_ready", "fetch_except"} /\ <<hi, pi>>' # <<hi, pi>>)
           => \/ pi < Len(Products) /\ pi' = pi + 1 /\ hi' = hi /\ pc' = "examine"
              \/ pi = Len(Products) /\ hi < Len(available_hours)
                   /\ pi' = 1 /\ hi' = hi + 1 /\ pc' = "examine"
              \/ pi = Len(Products) /\ hi = Len(available_hours) /\ pc' = "sleep"]_vars
  /\ [][(pc \in {"examine", "fetch_ready", "fetch_except"} /\ pc' = "sleep")
           => (pi = Len(Products) /\ hi = Len(available_hours))]_vars

\* the pass is about to fetch again a slot an earlier pass left unavailable
C7_Witness ==
  /\ pc = "fetch_loading"
  /\ _STATUS[curProduct][curFxx] = "unavailable"
  /\ _CYCLE_IN_USE = cycle_utc

\* C8 as stated: whenever the pass comes to examine an available hour with any of the
\* three products, the slot eventually becomes ready unless the product's calculator
\* (fetch_hrrr_gusts, fetch_froude, fetch_virga) raises for it.
C8_EventuallyReady ==
  \A sl \in Slots :
    (pc = "examine" /\ <<curProduct, curFxx>> = sl)
      ~> \/ _STATUS[sl[1]][sl[2]] = "ready"
         \/ pc = "fetch_except" /\ <<curProduct, curFxx>> = sl /\ exc \in FetchErrors

\* the products whose cache is keyed by (cycle_utc, fxx)
KeyedProducts == {"froude", "virga"}

\* C9 as stated: while a slot is ready, the getter's cache test for (cycle in use, fxx)
\* with the request path's default TTL is a hit, so a request is answered from the cache.
C9_ReadyIsCached ==
  \A p \in KeyedProducts, f \in Hours :
    (_STATUS[p][f] = "ready" /\ _STATUS_LOCK = "free")
      => ~IsMiss(CacheOf(p)[<<_CYCLE_IN_USE, f>>], now, DEFAULT_TTL)

\* the cache of the product the request is for, after the step
CacheOfNext(p) == IF p = "froude" THEN froude_CACHE' ELSE virga_CACHE'

\* C10: a cached get whose key holds an entry stored at t0 with now - t0 <= ttl returns
\* that entry's payload and leaves the caches alone; when the key is absent or
\* now - t0 > ttl it runs the calculator and, when that returns, stores the result
\* under the key with the time read at the start of the get.
C10_CachedGet ==
  /\ [][(r_pc = "r_get" /\ r_pc' # "r_get" /\ req.product \in KeyedProducts)
           => LET key == <<req.cycle_utc, req.fxx>>
                  e == CacheOf(req.product)[key]
              IN  IF e.present /\ now - e.ts <= req.ttl
                  THEN /\ r_pc' = "r_done"
                       /\ r_result' = [kind |-> "data", data |-> e.data, msg |-> NoExc]
                       /\ froude_CACHE' = froude_CACHE
                       /\ virga_CACHE' = virga_CACHE
                  ELSE /\ r_pc' = "r_compute"
                       /\ r_now' = now
                       /\ froude_CACHE' = froude_CACHE
                       /\ virga_CACHE' = virga_CACHE]_vars
  /\ [][(r_pc = "r_compute" /\ r_pc' # "r_compute" /\ r_result'.kind = "data")
           => LET key == <<req.cycle_utc, req.fxx>>
              IN  /\ CacheOfNext(req.product)[key] = Entry(r_now, r_result'.data)
                  /\ r_result'.data = Payload(req.cycle_utc, req.fxx)]_vars

\* a get with the default ttl is about to test an entry that is exactly ttl old
C10_Witness ==
  /\ r_pc = "r_get"
  /\ req.product = "froude"
  /\ req.ttl = DEFAULT_TTL
  /\ froude_CACHE[<<req.cycle_utc, req.fxx>>].present
  /\ now - froude_CACHE[<<req.cycle_utc, req.fxx>>].ts = req.ttl

(***************************************************************************)
(* C11: the payload a cached get returns for (cycle, fxx) was computed for *)
(* exactly that (cycle, fxx), for each of the gust, Froude and virga       *)
(* caches: the forecast hour of a returned payload is the requested one,   *)
(* and so is its cycle when the call names a cycle.                        *)
(***************************************************************************)
C11_ExactKey ==
  r_result.kind = "data" =>
    /\ r_result.data.fxx = req.fxx
    /\ req.cycle_utc # None => r_result.data.cycle_utc = req.cycle_utc

(***************************************************************************)
(* C12: when the computation for one (cycle, fxx) key raises during a      *)
(* cached get, the error reaches the caller and the cache is left exactly  *)
(* as it was: no entry is added or changed for that key, a stale entry     *)
(* keeps its old timestamp, and the entries of all other keys are          *)
(* untouched.                                                              *)
(***************************************************************************)
C12_RaiseLeavesCache ==
  [][(r_pc = "r_compute" /\ r_pc' = "r_done" /\ r_result'.kind # "data") =>
       /\ froude_CACHE' = froude_CACHE
       /\ virga_CACHE' = virga_CACHE
       /\ r_result'.kind \in {"raise", "not_available"}
       /\ r_result'.msg \in FetchErrors]_vars

\* a recompute of a stale entry has raised; the entry is still there, still stale
C12_Witness ==
  /\ r_pc = "r_done"
  /\ req.product \in KeyedProducts
  /\ r_result.kind = "raise"
  /\ r_result.msg \in FetchErrors
  /\ CacheOf(req.product)[<<req.cycle_utc, req.fxx>>].present
  /\ now - CacheOf(req.product)[<<req.cycle_utc, req.fxx>>].ts > req.ttl

(***************************************************************************)
(* C13: when two cached get calls for the same key overlap, each may run   *)
(* the computation and the entry left in the cache is the one written      *)
(* last: a call that returns from its computation stores its own start     *)
(* time and result whatever entry is there, so the stored timestamp can go *)
(* back from the one a later-started call has stored.                      *)
(***************************************************************************)
C13_LastWriteWins ==
  [][/\ (r_pc = "r_compute" /\ r_pc' = "r_done" /\ r_result'.kind = "data") =>
          CacheOfNext(req.product)[<<req.cycle_utc, req.fxx>>] = Entry(r_now, r_result'.data)
     /\ (s_pc = "s_compute" /\ s_pc' = "s_done" /\ s_result'.kind = "data") =>
          CacheOfNext(s_req.product)[<<s_req.cycle_utc, s_req.fxx>>] = Entry(s_now, s_result'.data)]_vars

\* the first call is still computing; the second, started later for the same key, has
\* computed too and stored; the first call's store then takes the timestamp back
C13_Witness ==
  /\ r_pc = "r_compute"
  /\ s_pc = "s_done"
  /\ s_result.kind = "data"
  /\ s_req.product = req.product
  /\ s_req.cycle_utc = req.cycle_utc
  /\ s_req.fxx = req.fxx
  /\ CacheOf(req.product)[<<req.cycle_utc, req.fxx>>].present
  /\ CacheOf(req.product)[<<req.cycle_utc, req.fxx>>].ts > r_now

\* the candidates of a call: current hour minus 0..max_lookback_hours
Candidates == (BaseHour - cyc.max_lookback_hours)..BaseHour

(***************************************************************************)
(* C14: cycle resolution returns the most recent candidate hour among      *)
(* current hour minus 0..max_lookback_hours whose inventory probe          *)
(* succeeds: candidates are probed newest first, the result's probe        *)
(* succeeded, every newer candidate's probe failed, and no candidate older *)
(* than the result is probed.                                              *)
(***************************************************************************)
C14_NewestAvailable ==
  /\ \A i \in 1..Len(cyc.probed) : cyc.probed[i] = BaseHour - (i - 1)
  /\ cyc.pc = "found" =>
        /\ cyc.result \in Candidates
        /\ cyc.outcome[cyc.result] = "ok"
        /\ \A c \in Candidates : c > cyc.result => cyc.outcome[c] # "ok"
        /\ \A i \in 1..Len(cyc.probed) : cyc.probed[i] >= cyc.result
  /\ (cyc.pc \in {"found", "fallback", "raised"} /\ \E c \in Candidates : cyc.outcome[c] = "ok")
        => cyc.pc = "found"

\* the two newest hours failed, the third succeeded and was returned, an older one
\* that would succeed too was not probed
C14_Witness ==
  /\ cyc.pc = "found"
  /\ cyc.max_lookback_hours = 3
  /\ cyc.result = BaseHour - 2
  /\ cyc.outcome[BaseHour - 3] = "ok"
  /\ cyc.probed = <<BaseHour, BaseHour - 1, BaseHour - 2>>

(***************************************************************************)
(* C15: cycle resolution never raises: an error from any probe is          *)
(* swallowed and treated as "not available, try older", and if every probe *)
(* in the lookback range fails the result is the fallback current hour     *)
(* minus 2, whatever max_lookback_hours is.                                *)
(***************************************************************************)
C15_NeverRaises ==
  /\ cyc.pc # "raised"
  /\ cyc.pc = "fallback" =>
        /\ cyc.result = BaseHour - 2
        /\ \A c \in Candidates : cyc.outcome[c] # "ok"
        /\ Len(cyc.probed) = cyc.max_lookback_hours + 1
  /\ (cyc.pc \in {"found", "fallback", "raised"} /\ \A c \in Candidates : cyc.outcome[c] # "ok")
        => (cyc.pc = "fallback" /\ cyc.result = BaseHour - 2)

\* a lookback of one hour: both probes raised, one of them a ValueError, and the
\* result is an hour that was not probed
C15_Witness ==
  /\ cyc.pc = "fallback"
  /\ cyc.max_lookback_hours = 1
  /\ cyc.outcome[BaseHour] = "ValueError"
  /\ cyc.outcome[BaseHour - 1] = "FileNotFoundError"
  /\ cyc.probed = <<BaseHour, BaseHour - 1>>
  /\ cyc.result = BaseHour - 2

(***************************************************************************)
(* C16: for a cycle of the availability status, available_hours is the     *)
(* ascending list of exactly those forecast hours in 1..12 whose inventory *)
(* probe succeeded, however the parallel probes interleave or complete,    *)
(* and pct_complete is 100 times their count divided by 12 (probes         *)
(* succeeding for {1,2,3} only give [1,2,3] and 25).                       *)
(***************************************************************************)
C16_SortedExact ==
  avail.pc = "done" =>
    LET a == avail.available_hours
    IN  /\ \A i, j \in 1..Len(a) : i < j => a[i] < a[j]
        /\ {a[i] : i \in 1..Len(a)} = avail.ok
        /\ avail.ok \subseteq 1..12
        /\ avail.pct_complete * 12 = 100 * Cardinality(avail.ok)
        /\ avail.ok = {1, 2, 3} => (a = <<1, 2, 3>> /\ avail.pct_complete = 25)

\* the probes of hours 1..3 succeeded and completed out of order
C16_Witness ==
  /\ avail.pc = "done"
  /\ avail.ok = {1, 2, 3}
  /\ avail.done = <<2, 1, 3>>
  /\ avail.available_hours = <<1, 2, 3>>
  /\ avail.pct_complete = 25

C18_Raw == RawN2(bv.T_850, bv.T_500, bv.gh_850, bv.gh_500)

(***************************************************************************)
(* C18: for any input where the raw N-squared formula                      *)
(* (g/theta_mean)*(theta_500 - theta_850)/(z_500 - z_850) is <= 0, the     *)
(* computed N equals sqrt(1e-6) = 0.001; for every input N is >= 0.001 and *)
(* never NaN or the square root of a negative number, including when       *)
(* z_500 = z_850.                                                          *)
(***************************************************************************)
C18_ClampedN ==
  bv.pc = "done" =>
    /\ bv.N.k \in {"sqrt", "inf"}
    /\ bv.N.k = "sqrt" => (bv.N.n > 0 /\ ~(bv.N.n <= (bv.N.d - 1) \div 1000000))
    /\ bv.N.k = "inf" => bv.N.n > 0
    /\ FLe(C18_Raw, Num(0, 1)) => bv.N = [k |-> "sqrt", n |-> 1, d |-> 1000000]

\* a step of fetch_virga that processes one cell
VirgaCellStep == vrg.pc = "loop" /\ vrg'.pc = "loop" /\ vrg'.i = vrg.i + 1

(***************************************************************************)
(* C19: a grid cell whose maximum upper-layer window-mean RH is below 80%  *)
(* has virga_pct forced to 0 however large its 100-mb RH decrease is, and  *)
(* so never appears in the virga output; every emitted virga record has    *)
(* upper-layer RH >= 80.                                                   *)
(***************************************************************************)
C19_UpperCloudGate ==
  [][/\ (VirgaCellStep /\ vrg'.max_upper_rh.k = "num"
                       /\ vrg'.max_upper_rh.n < 80 * vrg'.max_upper_rh.d) =>
          (vrg'.virga_pct = Num(0, 1) /\ vrg'.points = vrg.points)
     /\ \A k \in 1..Len(vrg'.points) :
          /\ vrg'.points[k].upper_rh.k = "num"
          /\ vrg'.points[k].upper_rh.n >= 80 * vrg'.points[k].upper_rh.d]_vars

\* a cell with upper RH 79.999 and an RH decrease of 95 got virga_pct 0 and no record
C19_Witness ==
  /\ vrg.i > 0
  /\ vrg.max_upper_rh = Num(79999, 1000)
  /\ vrg.max_rh_decrease = Num(95, 1)
  /\ vrg.virga_pct = Num(0, 1)
  /\ vrg.points = << >>

(***************************************************************************)
(* C20: the virga output has a record for a cell if and only if its        *)
(* computed virga_pct is >= 20 (19.9 is never emitted, 20.0 is); each      *)
(* emitted record's category is 1 for 20 <= pct < 40, 2 for 40 <= pct <    *)
(* 60, 3 for 60 <= pct < 80 and 4 for pct >= 80; virga_pct is always       *)
(* within [0, 100].                                                        *)
(***************************************************************************)
C20_FilterAndCategory ==
  [][VirgaCellStep =>
       LET n == vrg'.virga_pct.n
           d == vrg'.virga_pct.d
           emitted == Len(vrg'.points) = Len(vrg.points) + 1
       IN  /\ vrg'.virga_pct.k = "num"
           /\ 0 <= n /\ n <= 100 * d
           /\ emitted \/ vrg'.points = vrg.points
           /\ emitted <=> n >= 20 * d
           /\ emitted =>
                 LET rec == vrg'.points[Len(vrg'.points)]
                 IN  /\ SubSeq(vrg'.points, 1, Len(vrg.points)) = vrg.points
                     /\ rec.cat = 1 <=> n < 40 * d
                     /\ rec.cat = 2 <=> (40 * d <= n /\ n < 60 * d)
                     /\ rec.cat = 3 <=> (60 * d <= n /\ n < 80 * d)
                     /\ rec.cat = 4 <=> 80 * d <= n]_vars

\* a cell with virga_pct 20.0 exactly was emitted with category 1, after a cell that
\* was not emitted
C20_Witness ==
  /\ vrg.i = 2
  /\ vrg.virga_pct = Num(20, 1)
  /\ vrg.cat = 1
  /\ vrg.points = <<[virga_pct |-> Num(20, 1), cat |-> 1, upper_rh |-> Num(80, 1)]>>


(***************************************************************************)
(* C21. Whenever the extracted gust field holds a value outside            *)
(* [0, 150] m/s the gust extractor raises: it converts nothing to knots,   *)
(* emits no points, and nothing is stored in the cache.                    *)
(***************************************************************************)
C21_OutOfRange(g) == g.k = "num" /\ (g.n < 0 \/ g.n > 150 * g.d)

\* C21: a gust field with a value outside [0, 150] m/s is not converted, gives no
\* points and no cache entry
C21_RangeChecked ==
  (gst.pc # "idle" /\ \E j \in 1..Len(gst.gust_arr) : C21_OutOfRange(gst.gust_arr[j]))
    => /\ gst.pc \notin {"points", "returned"}
       /\ gst.gust_ds = << >>
       /\ gst.points = << >>
       /\ winds_CACHE = Absent

(***************************************************************************)
(* C22. For every raw longitude L the normalisation applied before the     *)
(* bounding-box comparison gives a value in (-180, 180] congruent to L     *)
(* modulo 360.                                                             *)
(***************************************************************************)
C22_Canonical(raw, lon) == lon > -1800 /\ lon <= 1800 /\ (lon - raw) % 3600 = 0

\* C22: every normalised longitude of the three calculators is in (-180, 180] and
\* congruent to the raw one modulo 360
C22_Normalized ==
  /\ gst.pc \in {"clip", "points", "returned", "raised"}
       => \A j \in 1..Len(gst.lon2d) : C22_Canonical(gst.coords_lon[j], gst.lon2d[j])
  /\ ffl.pc # "idle"
       => \A j \in 1..Len(ffl.lon2d) : C22_Canonical(ffl.coords_lon[j], ffl.lon2d[j])
  /\ vcol.pc # "idle"
       => \A j \in 1..Len(vcol.lon2d) : C22_Canonical(vcol.coords_lon[j], vcol.lon2d[j])


(***************************************************************************)
(* C23. A multi-field product raises whenever one of its required fields   *)
(* is missing from the file: fetch_froude gets to its computation only     *)
(* with the six pressure-level fields and a terrain field read from the    *)
(* sfc file, fetch_virga finishes its scans only with T, Td, U and V at    *)
(* all 15 levels; no other field or level stands in for a missing one.     *)
(***************************************************************************)
C23_RequiredPresent ==
  /\ ffl.pc = "clipped"
       => /\ PrsFieldSet \subseteq ffl.prs
          /\ ffl.sfc # {}
          /\ ffl.orog \in ffl.sfc
  /\ vcol.pc = "scanned"
       => \A lev \in LevelSet :
            lev \in vcol.file.T /\ lev \in vcol.file.Td /\ lev \in vcol.file.U /\ lev \in vcol.file.V

(***************************************************************************)
(* C24. A failure is reported as not-yet-published (404 "not_available" on *)
(* the request path) only when it means that the file is not published; a  *)
(* field missing from a downloaded file is raised as an error.             *)
(***************************************************************************)
\* the texts of FetchErrors raised because the requested file is not there
C24_NotPublishedTexts ==
  { "Download failed: /tmp/herbie/f.grib2",
    "HTTP Error 404: Not Found",
    "Did Not Find hrrr.t02z.wrfprsf01.grib2",
    "[Errno 2] No such file or directory" }
\* the text _read_field raises for a field that a downloaded file lacks
C24_FieldMissingText ==
  "Field not found: name='Temperature' typeOfLevel='isobaricInhPa' level=850 in f.grib2"

\* C24: the route answers "not_available" only for a file that is not published, and
\* raises for a field missing from a downloaded file
C24_OnlyNotPublished ==
  /\ r_result.kind = "not_available" => r_result.msg \in C24_NotPublishedTexts
  /\ r_result.msg = C24_FieldMissingText => r_result.kind = "raise"


(***************************************************************************)
(* C25. When the bounding-box mask over the latitude/longitude arrays      *)
(* selects no grid point, the gust, Froude and virga calculators raise:    *)
(* none of them goes on to build points from an empty selection.           *)
(***************************************************************************)
\* the points of a row inside 36.8..41.2 N, -109.2..-101.9 E
C25_Selected(lat2d, lon2d) ==
  {j \in 1..Len(lat2d) : /\ 368 <= lat2d[j] /\ lat2d[j] <= 412
                         /\ -1092 <= lon2d[j] /\ lon2d[j] <= -1019}

\* C25: a calculator gets past its clipping only with a selected grid point, and the
\* error of an empty selection leaves no points behind
C25_RegionEmptyRaises ==
  /\ gst.pc \in {"points", "returned"} => C25_Selected(gst.lat2d, gst.lon2d) # {}
  /\ gst.pc = "raised"
       => /\ C25_Selected(gst.lat2d, gst.lon2d) = {}
          /\ gst.points = << >>
          /\ r_result.kind \in {"raise", "none"}
  /\ ffl.pc = "clipped" => C25_Selected(ffl.lat2d, ffl.lon2d) # {}
  /\ (ffl.pc = "raised" /\ ffl.exc = RegionEmptyText)
       => (C25_Selected(ffl.lat2d, ffl.lon2d) = {} /\ ffl.lat_co = << >>)
  /\ vcol.pc \in {"window", "scan", "scanned"} => C25_Selected(vcol.lat2d, vcol.lon2d) # {}
  /\ (vcol.pc = "raised" /\ vcol.exc = RegionEmptyText)
       => (C25_Selected(vcol.lat2d, vcol.lon2d) = {} /\ vcol.rh = << >>)

\* the gust calculator has raised on a grid that lies east and north of the box, and
\* the getter has passed the error on
C25_Witness ==
  /\ gst.pc = "raised"
  /\ gst.lat2d[1] = 390 /\ gst.lon2d[1] = -1000
  /\ gst.lat2d[2] = 450
  /\ r_result.kind = "raise" /\ r_result.msg = GustRegionEmptyText
  /\ winds_CACHE = Absent


(***************************************************************************)
(* C26. The upper-layer RH of a cell is the largest mean RH over the       *)
(* windows that are 200 mb thick and lie within 500-700 mb; a thinner      *)
(* window, or one reaching outside 500-700 mb, adds nothing to it.         *)
(***************************************************************************)
\* the tops of the windows of 200 mb within 500..700 mb
C26_WindowTops == {t \in LevelSet : t >= 500 /\ t + 200 <= 700}
\* the mean RH over the levels from t to t + 200
C26_Mean(rh, t) ==
  MeanRH(rh, SelectSeq(LEVELS_MB, LAMBDA lev : t <= lev /\ lev <= t + 200))

\* C26: after the window loop max_upper_rh is the largest mean over the windows of
\* 200 mb within 500-700 mb
C26_UpperRH ==
  vcol.pc \in {"scan", "scanned"}
    => /\ \E t \in C26_WindowTops : vcol.max_upper_rh = C26_Mean(vcol.rh, t)
       /\ \A t \in C26_WindowTops : FLe(C26_Mean(vcol.rh, t), vcol.max_upper_rh)


(***************************************************************************)
(* C27. Over the levels L from 850 up to 500 mb that have a partner        *)
(* L - 100, the drying scan leaves max_rh_decrease = max(0, max over L of  *)
(* RH(L) - RH(L - 100)); when that is positive, the cloud-base wind is the *)
(* wind speed of a level nearest to L* - 50 among the levels that have     *)
(* wind, L* being the first level in the order 850 to 500 that attains     *)
(* the maximum.                                                            *)
(***************************************************************************)
C27_ScanLevels == {L \in LevelSet : L - 100 \in LevelSet}
C27_Decrease(rh, L) == FSub(rh[L], rh[L - 100])
\* the levels that attain the decrease d
C27_Attain(rh, d) == {L \in C27_ScanLevels : C27_Decrease(rh, L) = d}
\* the wind speeds of the levels of keys nearest to mid
C27_NearestWinds(keys, mid) ==
  {WindSpeedKt(WindU(l), WindV(l)) :
     l \in {k \in keys : \A m \in keys : Abs(k - mid) <= Abs(m - mid)}}

C28_LoadingOnlyInFetch ==
  /\ [](LoadingSlots # {} => pc \in InFetch)
  /\ [](pc \in {"sleep", "status", "reset_lock", "reset_status"} => LoadingSlots = {})
  /\ [][(pc \in InFetch /\ pc' \notin InFetch)
           => _STATUS'[curProduct][curFxx] \in FinalStatuses]_vars

\* the prefetcher sleeps after a pass in which one getter returned and two raised
C28_Witness ==
  /\ pc = "sleep"
  /\ _STATUS["winds"][1] = "error"
  /\ _STATUS["froude"][1] = "ready"
  /\ _STATUS["virga"][1] = "unavailable"


(***************************************************************************)
(* C29. An error does not end the prefetch loop: an exception raised by    *)
(* the request for the availability status is caught, the statuses and the *)
(* cycle in use stay as they were, the loop sleeps, and after every sleep  *)
(* it starts another pass, again and again.                                *)
(***************************************************************************)
C29_LoopSurvives ==
  /\ [][(pc = "status" /\ pc' \notin {"status", "reset_lock", "examine"})
           => (pc' = "sleep" /\ UNCHANGED <<_STATUS, _CYCLE_IN_USE>>)]_vars
  /\ [](pc \in {"delay", "status", "reset_lock", "reset_status", "examine", "fetch_loading",
                "fetch_call", "fetch_compute", "fetch_ready", "fetch_except", "sleep"})
  /\ (pc = "sleep") ~> (pc = "status")
  /\ []<>(pc = "status")

\* the first request for the status has failed: nothing was reset or fetched, and the
\* prefetcher sleeps
C29_Witness ==
  /\ pc = "sleep"
  /\ _CYCLE_IN_USE = None
  /\ AllPending


(***************************************************************************)
(* C30. In every emitted record the category is the classification of the  *)
(* value printed in the same record: a Froude record's cat is the class of *)
(* its rounded fr, a virga record's cat the class of its rounded           *)
(* virga_pct.                                                              *)
(***************************************************************************)
C30_CategoryOfPrinted ==
  /\ \A i \in 1..Len(frd.points) : frd.points[i].cat = _classify(frd.points[i].fr)
  /\ \A i \in 1..Len(vrg.points) :
       vrg.points[i].cat = _virga_category(vrg.points[i].virga_pct)

====
